---------------------------- MODULE Spec2Model ----------------------------
(***************************************************************************)
(* A model of the director media-monitoring pipeline (app/worker/tasks.py  *)
(* and app/core): candidate deduplication, the process_article job, the    *)
(* send_alert job and report generation, over the persistent store.        *)
(*                                                                         *)
(* Text is modelled at the character level: a string is a tuple of         *)
(* one-character strings, so that lower(), strip(), substring tests and    *)
(* the \b word-boundary regular expressions of the source are computed,    *)
(* not assumed.  Confidence values are kept in hundredths (0.75 is 75).    *)
(***************************************************************************)
EXTENDS Integers, Sequences, FiniteSets, TLC

(***************************************************************************)
(* Strings                                                                 *)
(***************************************************************************)

\* None / a missing dictionary key / NULL column.
None == <<"None">>

UpperChars == <<"A","B","C","D","E","F","G","H","I","J","K","L","M","N","O","P","Q","R","S","T","U","V","W","X","Y","Z">> (* ABCDEFGHIJKLMNOPQRSTUVWXYZ *)
LowerChars == <<"a","b","c","d","e","f","g","h","i","j","k","l","m","n","o","p","q","r","s","t","u","v","w","x","y","z">> (* abcdefghijklmnopqrstuvwxyz *)
DigitChars == <<"0","1","2","3","4","5","6","7","8","9">> (* 0123456789 *)

\* The set of elements of a sequence.
Range(s) == { s[i] : i \in 1..Len(s) }

\* str.lower() of one character.
LowerChar(c) ==
    IF \E i \in 1..Len(UpperChars) : UpperChars[i] = c
    THEN LowerChars[CHOOSE i \in 1..Len(UpperChars) : UpperChars[i] = c]
    ELSE c

\* str.lower()
Lower(s) == [i \in 1..Len(s) |-> LowerChar(s[i])]

\* \w of the re module (ASCII letters, digits, underscore).
IsWordChar(c) == c \in Range(UpperChars) \cup Range(LowerChars) \cup Range(DigitChars) \cup {"_"}

\* Whitespace as str.strip() and str.split() see it.
IsSpace(c) == c \in {" ", "\t", "\n"}

\* s[n:] of Python, n >= 0.
DropChars(s, n) == IF n >= Len(s) THEN <<>> ELSE SubSeq(s, n + 1, Len(s))

\* str.lstrip() / str.rstrip() / str.strip()
RECURSIVE LStrip(_)
LStrip(s) == IF s # <<>> /\ IsSpace(s[1]) THEN LStrip(Tail(s)) ELSE s

RECURSIVE RStrip(_)
RStrip(s) == IF s # <<>> /\ IsSpace(s[Len(s)]) THEN RStrip(SubSeq(s, 1, Len(s) - 1)) ELSE s

Strip(s) == RStrip(LStrip(s))

\* str.startswith(p)
StartsWith(s, p) == Len(p) <= Len(s) /\ SubSeq(s, 1, Len(p)) = p

\* pat occurs in text starting at position i.
MatchAt(text, pat, i) ==
    /\ i >= 1
    /\ i + Len(pat) - 1 <= Len(text)
    /\ \A k \in 1..Len(pat) : text[i + k - 1] = pat[k]

\* `pat in text` of Python (substring test).
Contains(text, pat) == \E i \in 1..(Len(text) - Len(pat) + 1) : MatchAt(text, pat, i)

\* \b of the re module between positions k and k+1 of text (k in 0..Len).
WordBoundary(text, k) ==
    LET before == k >= 1 /\ IsWordChar(text[k])
        after  == k < Len(text) /\ IsWordChar(text[k + 1])
    IN  before # after

\* re.search(r"\b" + re.escape(pat) + r"\b", text)
SearchWord(text, pat) ==
    \E i \in 1..(Len(text) - Len(pat) + 1) :
        /\ MatchAt(text, pat, i)
        /\ WordBoundary(text, i - 1)
        /\ WordBoundary(text, i + Len(pat) - 1)

\* " ".join(s.split()): whitespace runs collapsed to one space, ends trimmed.
RECURSIVE CollapseRuns(_)
CollapseRuns(s) ==
    IF s = <<>> THEN <<>>
    ELSE IF IsSpace(s[1])
         THEN <<" ">> \o CollapseRuns(LStrip(s))
         ELSE <<s[1]>> \o CollapseRuns(Tail(s))

JoinSplit(s) == CollapseRuns(Strip(s))

\* f"{a} {b}"
Cat(a, b) == a \o <<" ">> \o b

\* A Python value used as a condition: None and "" are false.
Truthy(s) == s # None /\ s # <<>>

\* `s or ""`
OrEmpty(s) == IF Truthy(s) THEN s ELSE <<>>

(***************************************************************************)
(* Entity resolution (app/core/entity_resolution.py, india_utils.py)       *)
(***************************************************************************)

INDIAN_HONORIFICS == <<
    <<"S","h","r","i">> (* Shri *), <<"S","h","r","i","m","a","t","i">> (* Shrimati *), <<"S","m","t">> (* Smt *), <<"D","r">> (* Dr *), <<"D","r",".">> (* Dr. *), <<"P","r","o","f">> (* Prof *), <<"P","r","o","f",".">> (* Prof. *),
    <<"M","r">> (* Mr *), <<"M","r",".">> (* Mr. *), <<"M","r","s">> (* Mrs *), <<"M","r","s",".">> (* Mrs. *), <<"M","s">> (* Ms *), <<"M","s",".">> (* Ms. *), <<"S","i","r">> (* Sir *), <<"M","a","d","a","m">> (* Madam *),
    <<"J","u","s","t","i","c","e">> (* Justice *), <<"H","o","n","'","b","l","e">> (* Hon'ble *), <<"H","o","n","o","r","a","b","l","e">> (* Honorable *) >>

\* Director.get_all_names(): full name, aliases, structured-name patterns.
\* (Directors of the model carry no middle names.)
get_all_names(d) ==
    {d.full_name} \cup Range(d.aliases)
    \cup (IF Truthy(d.first_name) /\ Truthy(d.last_name)
          THEN {Cat(d.first_name, d.last_name)} ELSE {})
    \cup (IF Truthy(d.last_name) /\ ~Truthy(d.first_name) THEN {d.last_name} ELSE {})

\* Director.get_all_context_terms(): the list, duplicates kept.
get_all_context_terms(d) ==
    d.context_terms
    \o (IF Truthy(d.company_name) THEN <<d.company_name>> ELSE <<>>)
    \o (IF Truthy(d.company_industry) THEN <<d.company_industry>> ELSE <<>>)
    \o (IF Truthy(d.listed_exchange) THEN <<d.listed_exchange>> ELSE <<>>)

get_all_negative_terms(d) == d.negative_terms

\* The honorific-stripping loop of generate_indian_name_patterns from the
\* i-th honorific on: the set of stripped names it appends.
RECURSIVE StripHonorifics(_, _)
StripHonorifics(name, i) ==
    IF i > Len(INDIAN_HONORIFICS) THEN {}
    ELSE IF StartsWith(name, INDIAN_HONORIFICS[i] \o <<" ">>)
         THEN LET clean == Strip(DropChars(name, Len(INDIAN_HONORIFICS[i]) + 1))
              IN  {clean} \cup StripHonorifics(clean, i + 1)
         ELSE StripHonorifics(name, i + 1)

generate_indian_name_patterns(d) ==
    LET variants ==
            {d.full_name} \cup Range(d.aliases)
            \cup (IF Truthy(d.first_name) /\ Truthy(d.last_name)
                  THEN {Cat(d.first_name, d.last_name),
                        <<d.first_name[1], ".">> \o <<" ">> \o d.last_name}
                  ELSE {})
        added(name) ==
            IF \E i \in 1..Len(INDIAN_HONORIFICS) : StartsWith(name, INDIAN_HONORIFICS[i])
            THEN {}
            ELSE { Cat(h, name) : h \in {<<"S","h","r","i">> (* Shri *), <<"D","r",".">> (* Dr. *), <<"M","r",".">> (* Mr. *)} }
    IN  UNION { {name} \cup StripHonorifics(name, 1) \cup added(name) : name \in variants }

\* The honorific loop of normalize_indian_name from the i-th honorific on.
RECURSIVE NormalizeFrom(_, _)
NormalizeFrom(name, i) ==
    IF i > Len(INDIAN_HONORIFICS) THEN name
    ELSE IF StartsWith(Lower(name), Lower(INDIAN_HONORIFICS[i]) \o <<" ">>)
         THEN NormalizeFrom(Strip(DropChars(name, Len(INDIAN_HONORIFICS[i]))), i + 1)
         ELSE NormalizeFrom(name, i + 1)

normalize_indian_name(name) == CollapseRuns(NormalizeFrom(Strip(name), 1))

\* The name patterns compute_confidence matches with (lines 87-102).
NamePatterns(d) ==
    { normalize_indian_name(n) : n \in get_all_names(d) \cup generate_indian_name_patterns(d) }

find_name_in_text(text, names) ==
    /\ Truthy(text)
    /\ \E name \in names : name # <<>> /\ SearchWord(Lower(text), Lower(name))

\* How many entries of the list `terms` occur in text.
find_terms_in_text(text, terms) ==
    IF ~Truthy(text) THEN 0
    ELSE Cardinality({ i \in 1..Len(terms) :
            terms[i] # <<>> /\ SearchWord(Lower(text), Lower(terms[i])) })

check_negative_terms(text, negative_terms) ==
    /\ Truthy(text)
    /\ \E i \in 1..Len(negative_terms) :
          negative_terms[i] # <<>> /\ SearchWord(Lower(text), Lower(negative_terms[i]))

Min(a, b) == IF a <= b THEN a ELSE b

\* compute_confidence, in hundredths.
compute_confidence(d, title, snippet, extracted_content, article_state, article_city) ==
    LET names     == NamePatterns(d)
        full_text == Cat(Cat(title, snippet), OrEmpty(extracted_content))
        c_title   == IF find_name_in_text(title, names) THEN 50 ELSE 0
        c_snippet == IF find_name_in_text(snippet, names) THEN 30 ELSE 0
        c_content == IF Truthy(extracted_content) /\ find_name_in_text(extracted_content, names)
                     THEN 20 ELSE 0
        c_context == Min(10 * find_terms_in_text(full_text, get_all_context_terms(d)), 30)
        c_state   == IF Truthy(article_state) /\ Truthy(d.hq_state)
                        /\ Lower(article_state) = Lower(d.hq_state) THEN 10 ELSE 0
        c_city    == IF Truthy(article_city) /\ Truthy(d.hq_city)
                        /\ Lower(article_city) = Lower(d.hq_city) THEN 5 ELSE 0
        confidence == c_title + c_snippet + c_content + c_context + c_state + c_city
    IN  IF check_negative_terms(full_text, get_all_negative_terms(d)) THEN 0
        ELSE IF confidence < 30 /\ ~find_name_in_text(full_text, names) THEN 0
        ELSE Min(confidence, 100)

\* The loop of resolve_director with `>=` in place of `>` at line 175: of
\* equal scores the last one would win.
RECURSIVE ResolveLoop_LastWins(_, _, _, _, _, _, _, _)
ResolveLoop_LastWins(directors, i, best, title, snippet, content, min_confidence, loc) ==
    IF i > Len(directors) THEN best
    ELSE LET d == directors[i]
             confidence == compute_confidence(d, title, snippet, content, loc[1], loc[2])
             next == IF d.is_active /\ confidence >= best[2] /\ confidence >= min_confidence
                     THEN <<i, confidence>> ELSE best
         IN  ResolveLoop_LastWins(directors, i + 1, next, title, snippet, content,
                                  min_confidence, loc)

\* The loop of resolve_director over directors[i..]: best is
\* <<index of best_match (0 for None), best_confidence>>.
RECURSIVE ResolveLoop(_, _, _, _, _, _, _, _)
ResolveLoop(directors, i, best, title, snippet, content, min_confidence, loc) ==
    IF i > Len(directors) THEN best
    ELSE LET d == directors[i]
             confidence == compute_confidence(d, title, snippet, content, loc[1], loc[2])
             next == IF d.is_active /\ confidence > best[2] /\ confidence >= min_confidence
                     THEN <<i, confidence>> ELSE best
         IN  ResolveLoop(directors, i + 1, next, title, snippet, content, min_confidence, loc)

\* resolve_director: the matched director and the confidence, or no match.
resolve_director(directors, title, snippet, content, min_confidence, article_state, article_city) ==
    LET best == ResolveLoop(directors, 1, <<0, 0>>, title, snippet, content,
                            min_confidence, <<article_state, article_city>>)
    IN  IF best[1] # 0
        THEN [matched |-> TRUE, director |-> directors[best[1]], confidence |-> best[2]]
        ELSE [matched |-> FALSE]

(***************************************************************************)
(* Heuristic classification (app/core/classification.py)                   *)
(***************************************************************************)

NEGATIVE_HIGH_SEVERITY_KEYWORDS == {
    <<"a","r","r","e","s","t","e","d">> (* arrested *), <<"c","h","a","r","g","e","s","h","e","e","t">> (* chargesheet *), <<"r","a","i","d">> (* raid *), <<"f","r","a","u","d">> (* fraud *), <<"m","o","n","e","y"," ","l","a","u","n","d","e","r","i","n","g">> (* money laundering *),
    <<"E","D">> (* ED *), <<"C","B","I">> (* CBI *), <<"c","o","n","v","i","c","t","i","o","n">> (* conviction *), <<"c","o","u","r","t"," ","o","r","d","e","r">> (* court order *), <<"s","c","a","m">> (* scam *), <<"b","a","n","k","r","u","p","t","c","y">> (* bankruptcy *),
    <<"d","e","f","a","u","l","t">> (* default *), <<"s","a","n","c","t","i","o","n">> (* sanction *), <<"b","a","n","n","e","d">> (* banned *), <<"S","E","B","I"," ","a","c","t","i","o","n">> (* SEBI action *),
    <<"e","n","f","o","r","c","e","m","e","n","t"," ","d","i","r","e","c","t","o","r","a","t","e">> (* enforcement directorate *), <<"c","e","n","t","r","a","l"," ","b","u","r","e","a","u">> (* central bureau *), <<"c","o","n","v","i","c","t","e","d">> (* convicted *),
    <<"s","e","n","t","e","n","c","e","d">> (* sentenced *), <<"j","a","i","l">> (* jail *), <<"p","r","i","s","o","n">> (* prison *) }

NEGATIVE_MEDIUM_SEVERITY_KEYWORDS == {
    <<"i","n","v","e","s","t","i","g","a","t","i","o","n">> (* investigation *), <<"n","o","t","i","c","e">> (* notice *), <<"s","u","m","m","o","n","s">> (* summons *), <<"P","I","L">> (* PIL *), <<"l","a","w","s","u","i","t">> (* lawsuit *), <<"d","i","s","p","u","t","e">> (* dispute *),
    <<"a","l","l","e","g","a","t","i","o","n">> (* allegation *), <<"c","o","m","p","l","a","i","n","t">> (* complaint *), <<"i","n","q","u","i","r","y">> (* inquiry *), <<"p","r","o","b","e">> (* probe *), <<"s","c","r","u","t","i","n","y">> (* scrutiny *) }

POSITIVE_KEYWORDS == {
    <<"a","p","p","o","i","n","t","e","d">> (* appointed *), <<"j","o","i","n","s"," ","b","o","a","r","d">> (* joins board *), <<"a","w","a","r","d">> (* award *), <<"h","o","n","o","u","r","e","d">> (* honoured *), <<"r","e","c","o","g","n","i","z","e","d">> (* recognized *),
    <<"m","i","l","e","s","t","o","n","e">> (* milestone *), <<"e","x","p","a","n","s","i","o","n">> (* expansion *), <<"p","h","i","l","a","n","t","h","r","o","p","i","c">> (* philanthropic *), <<"a","c","h","i","e","v","e","m","e","n","t">> (* achievement *), <<"s","u","c","c","e","s","s">> (* success *),
    <<"e","x","c","e","l","l","e","n","c","e">> (* excellence *), <<"l","e","a","d","e","r","s","h","i","p">> (* leadership *), <<"c","o","m","m","e","n","d","a","t","i","o","n">> (* commendation *) }

REGULATORY_KEYWORDS == {
    <<"S","E","B","I">> (* SEBI *), <<"R","B","I">> (* RBI *), <<"E","D">> (* ED *), <<"C","B","I">> (* CBI *), <<"r","e","g","u","l","a","t","o","r","y">> (* regulatory *), <<"c","o","m","p","l","i","a","n","c","e">> (* compliance *),
    <<"v","i","o","l","a","t","i","o","n">> (* violation *), <<"p","e","n","a","l","t","y">> (* penalty *), <<"f","i","n","e">> (* fine *), <<"a","c","t","i","o","n">> (* action *) }

LEGAL_KEYWORDS == {
    <<"c","o","u","r","t">> (* court *), <<"j","u","d","g","e">> (* judge *), <<"j","u","d","g","m","e","n","t">> (* judgment *), <<"l","a","w","s","u","i","t">> (* lawsuit *), <<"l","i","t","i","g","a","t","i","o","n">> (* litigation *), <<"l","e","g","a","l">> (* legal *),
    <<"p","e","t","i","t","i","o","n">> (* petition *), <<"h","e","a","r","i","n","g">> (* hearing *), <<"v","e","r","d","i","c","t">> (* verdict *) }

FINANCIAL_KEYWORDS == {
    <<"f","i","n","a","n","c","i","a","l">> (* financial *), <<"r","e","v","e","n","u","e">> (* revenue *), <<"p","r","o","f","i","t">> (* profit *), <<"l","o","s","s">> (* loss *), <<"e","a","r","n","i","n","g","s">> (* earnings *), <<"q","u","a","r","t","e","r","l","y">> (* quarterly *),
    <<"a","n","n","u","a","l">> (* annual *), <<"c","o","r","p","o","r","a","t","e">> (* corporate *), <<"b","u","s","i","n","e","s","s">> (* business *) }

GOVERNANCE_KEYWORDS == {
    <<"b","o","a","r","d">> (* board *), <<"d","i","r","e","c","t","o","r">> (* director *), <<"g","o","v","e","r","n","a","n","c","e">> (* governance *), <<"a","p","p","o","i","n","t","m","e","n","t">> (* appointment *), <<"r","e","s","i","g","n","a","t","i","o","n">> (* resignation *),
    <<"i","n","d","e","p","e","n","d","e","n","t"," ","d","i","r","e","c","t","o","r">> (* independent director *), <<"c","o","m","m","i","t","t","e","e">> (* committee *), <<"m","e","e","t","i","n","g">> (* meeting *) }

INDIA_REGULATORY_KEYWORDS == {
    <<"S","E","B","I">> (* SEBI *), <<"R","B","I">> (* RBI *), <<"E","D">> (* ED *), <<"C","B","I">> (* CBI *), <<"S","F","I","O">> (* SFIO *), <<"N","C","L","T">> (* NCLT *), <<"N","C","L","A","T">> (* NCLAT *), <<"M","C","A">> (* MCA *),
    <<"I","T"," ","d","e","p","a","r","t","m","e","n","t">> (* IT department *), <<"I","n","c","o","m","e"," ","T","a","x">> (* Income Tax *), <<"G","S","T">> (* GST *), <<"D","R","I">> (* DRI *), <<"S","F","I","O"," ","i","n","v","e","s","t","i","g","a","t","i","o","n">> (* SFIO investigation *),
    <<"M","i","n","i","s","t","r","y"," ","o","f"," ","C","o","r","p","o","r","a","t","e"," ","A","f","f","a","i","r","s">> (* Ministry of Corporate Affairs *), <<"M","C","A"," ","o","r","d","e","r">> (* MCA order *), <<"S","E","B","I"," ","o","r","d","e","r">> (* SEBI order *),
    <<"R","B","I"," ","a","c","t","i","o","n">> (* RBI action *), <<"E","n","f","o","r","c","e","m","e","n","t"," ","D","i","r","e","c","t","o","r","a","t","e">> (* Enforcement Directorate *), <<"C","e","n","t","r","a","l"," ","B","u","r","e","a","u"," ","o","f"," ","I","n","v","e","s","t","i","g","a","t","i","o","n">> (* Central Bureau of Investigation *),
    <<"S","e","r","i","o","u","s"," ","F","r","a","u","d"," ","I","n","v","e","s","t","i","g","a","t","i","o","n"," ","O","f","f","i","c","e">> (* Serious Fraud Investigation Office *), <<"N","a","t","i","o","n","a","l"," ","C","o","m","p","a","n","y"," ","L","a","w"," ","T","r","i","b","u","n","a","l">> (* National Company Law Tribunal *),
    <<"N","a","t","i","o","n","a","l"," ","C","o","m","p","a","n","y"," ","L","a","w"," ","A","p","p","e","l","l","a","t","e"," ","T","r","i","b","u","n","a","l">> (* National Company Law Appellate Tribunal *), <<"I","n","c","o","m","e"," ","T","a","x"," ","D","e","p","a","r","t","m","e","n","t">> (* Income Tax Department *) }

INDIA_LEGAL_KEYWORDS == {
    <<"S","u","p","r","e","m","e"," ","C","o","u","r","t">> (* Supreme Court *), <<"H","i","g","h"," ","C","o","u","r","t">> (* High Court *), <<"D","i","s","t","r","i","c","t"," ","C","o","u","r","t">> (* District Court *), <<"S","e","s","s","i","o","n"," ","C","o","u","r","t">> (* Session Court *),
    <<"F","I","R"," ","r","e","g","i","s","t","e","r","e","d">> (* FIR registered *), <<"c","h","a","r","g","e"," ","s","h","e","e","t">> (* charge sheet *), <<"s","h","o","w","-","c","a","u","s","e"," ","n","o","t","i","c","e">> (* show-cause notice *),
    <<"a","t","t","a","c","h","m","e","n","t"," ","o","f"," ","a","s","s","e","t","s">> (* attachment of assets *), <<"a","r","r","e","s","t"," ","w","a","r","r","a","n","t">> (* arrest warrant *), <<"b","a","i","l">> (* bail *), <<"p","r","o","s","e","c","u","t","i","o","n">> (* prosecution *),
    <<"l","i","t","i","g","a","t","i","o","n">> (* litigation *), <<"P","I","L">> (* PIL *), <<"w","r","i","t"," ","p","e","t","i","t","i","o","n">> (* writ petition *), <<"c","o","n","t","e","m","p","t"," ","o","f"," ","c","o","u","r","t">> (* contempt of court *),
    <<"s","t","a","y"," ","o","r","d","e","r">> (* stay order *), <<"i","n","t","e","r","i","m"," ","o","r","d","e","r">> (* interim order *), <<"f","i","n","a","l"," ","o","r","d","e","r">> (* final order *) }

\* any(kw.lower() in search_text for kw in keywords)
AnyLowerIn(keywords, search_text) == \E kw \in keywords : Contains(search_text, Lower(kw))

\* any(kw in search_text for kw in keywords)
AnyIn(keywords, search_text) == \E kw \in keywords : Contains(search_text, kw)

\* The category sub-checks with the legal keywords tested before the
\* regulatory ones.
NegativeCategory_LegalFirst(search_text, regulatory_keywords, legal_keywords) ==
    IF AnyLowerIn(legal_keywords, search_text)
    THEN IF AnyLowerIn({<<"n","c","l","t">> (* nclt *), <<"n","c","l","a","t">> (* nclat *), <<"c","i","v","i","l"," ","s","u","i","t">> (* civil suit *), <<"c","r","i","m","i","n","a","l"," ","c","a","s","e">> (* criminal case *),
                        <<"f","i","r">> (* fir *), <<"c","h","a","r","g","e"," ","s","h","e","e","t">> (* charge sheet *)}, search_text)
         THEN "LITIGATION" ELSE "LEGAL_COURT"
    ELSE IF AnyLowerIn(regulatory_keywords, search_text) THEN "REGULATORY_ENFORCEMENT"
    ELSE "PERSONAL_REPUTATION"

\* The category sub-checks of the two negative branches (lines 178-188, 194-203).
NegativeCategory(search_text, regulatory_keywords, legal_keywords) ==
    IF AnyLowerIn(regulatory_keywords, search_text) THEN "REGULATORY_ENFORCEMENT"
    ELSE IF AnyLowerIn(legal_keywords, search_text)
         THEN IF AnyLowerIn({<<"n","c","l","t">> (* nclt *), <<"n","c","l","a","t">> (* nclat *), <<"c","i","v","i","l"," ","s","u","i","t">> (* civil suit *), <<"c","r","i","m","i","n","a","l"," ","c","a","s","e">> (* criminal case *),
                             <<"f","i","r">> (* fir *), <<"c","h","a","r","g","e"," ","s","h","e","e","t">> (* charge sheet *)}, search_text)
              THEN "LITIGATION" ELSE "LEGAL_COURT"
    ELSE "PERSONAL_REPUTATION"

\* The category-only cascade taken while category is still OTHER (lines 217-237).
CategoryCascade(search_text, regulatory_keywords, legal_keywords) ==
    IF AnyLowerIn(regulatory_keywords, search_text) THEN "REGULATORY_ENFORCEMENT"
    ELSE IF AnyLowerIn(legal_keywords, search_text)
         THEN IF AnyLowerIn({<<"n","c","l","t">> (* nclt *), <<"n","c","l","a","t">> (* nclat *), <<"c","i","v","i","l"," ","s","u","i","t">> (* civil suit *), <<"c","r","i","m","i","n","a","l"," ","c","a","s","e">> (* criminal case *)}, search_text)
              THEN "LITIGATION" ELSE "LEGAL_COURT"
    ELSE IF AnyIn(FINANCIAL_KEYWORDS, search_text) THEN "FINANCIAL_CORPORATE"
    ELSE IF AnyIn(GOVERNANCE_KEYWORDS, search_text)
         THEN IF AnyLowerIn({<<"b","o","a","r","d"," ","d","i","s","p","u","t","e">> (* board dispute *), <<"r","e","l","a","t","e","d"," ","p","a","r","t","y">> (* related party *), <<"g","o","v","e","r","n","a","n","c","e"," ","i","s","s","u","e">> (* governance issue *),
                             <<"c","o","n","f","l","i","c","t"," ","o","f"," ","i","n","t","e","r","e","s","t">> (* conflict of interest *)}, search_text)
              THEN "CORPORATE_GOVERNANCE" ELSE "GOVERNANCE_BOARD_APPOINTMENT"
    ELSE IF AnyIn({<<"c","o","n","t","r","o","v","e","r","s","y">> (* controversy *), <<"p","r","o","t","e","s","t">> (* protest *), <<"s","t","a","t","e","m","e","n","t">> (* statement *), <<"c","r","i","t","i","c","i","s","m">> (* criticism *),
                   <<"a","l","l","e","g","a","t","i","o","n">> (* allegation *)}, search_text)
         THEN "ESG_SOCIAL_POLITICAL"
    ELSE "OTHER"

\* classify_heuristic: sentiment, severity and category of the returned dict.
classify_heuristic(title, snippet, content, language, country_profile) ==
    LET search_text == Lower(Cat(Cat(title, snippet), OrEmpty(content)))
        regulatory_keywords ==
            IF country_profile = "IN" THEN INDIA_REGULATORY_KEYWORDS \cup REGULATORY_KEYWORDS
            ELSE REGULATORY_KEYWORDS
        legal_keywords ==
            IF country_profile = "IN" THEN INDIA_LEGAL_KEYWORDS \cup LEGAL_KEYWORDS
            ELSE LEGAL_KEYWORDS
        branch ==
            IF AnyLowerIn(NEGATIVE_HIGH_SEVERITY_KEYWORDS, search_text)
            THEN [sentiment |-> "NEGATIVE", severity |-> "HIGH",
                  category |-> NegativeCategory(search_text, regulatory_keywords, legal_keywords)]
            ELSE IF AnyLowerIn(NEGATIVE_MEDIUM_SEVERITY_KEYWORDS, search_text)
            THEN [sentiment |-> "NEGATIVE", severity |-> "MEDIUM",
                  category |-> NegativeCategory(search_text, regulatory_keywords, legal_keywords)]
            ELSE IF AnyLowerIn(POSITIVE_KEYWORDS, search_text)
            THEN [sentiment |-> "POSITIVE", severity |-> "LOW",
                  category |->
                      IF AnyIn({<<"a","w","a","r","d">> (* award *), <<"h","o","n","o","u","r","e","d">> (* honoured *), <<"r","e","c","o","g","n","i","z","e","d">> (* recognized *)}, search_text)
                      THEN "AWARDS_RECOGNITION"
                      ELSE IF AnyIn(GOVERNANCE_KEYWORDS, search_text)
                      THEN "GOVERNANCE_BOARD_APPOINTMENT"
                      ELSE "OTHER"]
            ELSE [sentiment |-> "NEUTRAL", severity |-> "LOW", category |-> "OTHER"]
    IN  IF branch.category = "OTHER"
        THEN [branch EXCEPT !.category =
                  CategoryCascade(search_text, regulatory_keywords, legal_keywords)]
        ELSE branch

(***************************************************************************)
(* classify_llm (app/core/classification.py 270-411)                       *)
(* The answer of the external service is an input of the model: the call   *)
(* may raise, the text returned may not be JSON, and the JSON may be any   *)
(* value.  Of a JSON object the model keeps the values under the keys      *)
(* classify_llm reads.                                                     *)
(***************************************************************************)

\* JSON values by kind; a string carries its text.  "missing": no such key.
JsonMissing == [kind |-> "missing", value |-> ""]
JsonNull    == [kind |-> "null", value |-> ""]
JsonArray   == [kind |-> "array", value |-> ""]
JsonObject  == [kind |-> "object", value |-> ""]
JsonString(s) == [kind |-> "string", value |-> s]

\* The dicts of lines 378-400, by key.
sentiment_map == [ positive |-> "POSITIVE", negative |-> "NEGATIVE",
                   neutral |-> "NEUTRAL", mixed |-> "MIXED" ]
severity_map == [ low |-> "LOW", medium |-> "MEDIUM", high |-> "HIGH" ]
category_map == [ regulatory_enforcement |-> "REGULATORY_ENFORCEMENT",
                  legal_court |-> "LEGAL_COURT",
                  litigation |-> "LITIGATION",
                  financial_corporate |-> "FINANCIAL_CORPORATE",
                  governance_board_appointment |-> "GOVERNANCE_BOARD_APPOINTMENT",
                  awards_recognition |-> "AWARDS_RECOGNITION",
                  personal_reputation |-> "PERSONAL_REPUTATION",
                  corporate_governance |-> "CORPORATE_GOVERNANCE",
                  esg_social_political |-> "ESG_SOCIAL_POLITICAL",
                  other |-> "OTHER" ]

\* A list or a dict cannot be a dict key: map.get(value) raises TypeError.
Hashable(v) == v.kind \notin {"array", "object"}

\* map.get(result.get(key, default_key), default) for a hashable value.
MapGet(map, v, default_key, default) ==
    LET key == IF v.kind = "missing" THEN JsonString(default_key) ELSE v
    IN  IF key.kind = "string" /\ key.value \in DOMAIN map THEN map[key.value]
        ELSE default

\* classify_llm returned None.
NoClassification ==
    [ ok |-> FALSE, sentiment |-> "NEUTRAL", severity |-> "LOW", category |-> "OTHER",
      why_it_matters |-> JsonMissing ]

\* classify_llm(title, snippet, content, api_key, model) for an answer of the
\* service: None without an API key (285-286) and whenever anything raises
\* (409-411), else the dict of lines 402-408.
classify_llm(api_key, answer) ==
    IF ~api_key THEN NoClassification
    ELSE IF answer.kind # "object" THEN NoClassification
    ELSE IF \E k \in {"sentiment", "severity", "category"} : ~Hashable(answer[k])
    THEN NoClassification
    ELSE [ ok |-> TRUE,
           sentiment |-> MapGet(sentiment_map, answer.sentiment, "neutral", "NEUTRAL"),
           severity |-> MapGet(severity_map, answer.severity, "low", "LOW"),
           category |-> MapGet(category_map, answer.category, "other", "OTHER"),
           why_it_matters |-> IF answer.why_it_matters.kind = "missing"
                              THEN JsonString("")
                              ELSE answer.why_it_matters ]

(***************************************************************************)
(* URL canonicalization (app/core/url_utils.py)                            *)
(* URLs of the model carry no percent escapes, no userinfo and no          *)
(* ";params" part: urlparse, parse_qs and urlencode are computed for the   *)
(* rest.                                                                   *)
(***************************************************************************)

\* First position >= from at which a character of `chars` occurs, else 0.
FirstOf(s, chars, from) ==
    IF \E i \in from..Len(s) : s[i] \in chars
    THEN CHOOSE i \in from..Len(s) : s[i] \in chars /\ \A j \in from..(i - 1) : s[j] \notin chars
    ELSE 0

\* s.split(sep): the pieces of s between occurrences of the character sep.
RECURSIVE SplitOn(_, _)
SplitOn(s, sep) ==
    LET i == FirstOf(s, {sep}, 1)
    IN  IF i = 0 THEN <<s>>
        ELSE <<SubSeq(s, 1, i - 1)>> \o SplitOn(DropChars(s, i), sep)

\* urlparse(url): scheme, netloc, path, query, fragment.  The stages below
\* split off, in urlsplit's order, the scheme, the netloc, the fragment and
\* the query.
SchemeEnd(url) ==
    LET colon == FirstOf(url, {":"}, 1)
    IN  IF /\ colon > 1
           /\ url[1] \in Range(UpperChars) \cup Range(LowerChars)
           /\ \A i \in 1..(colon - 1) :
                  url[i] \in Range(UpperChars) \cup Range(LowerChars)
                             \cup Range(DigitChars) \cup {"+", "-", "."}
        THEN colon ELSE 0

ParseQuery(scheme, netloc, rest, fragment) ==
    LET qm == FirstOf(rest, {"?"}, 1)
    IN  [scheme |-> scheme, netloc |-> netloc,
         path |-> IF qm = 0 THEN rest ELSE SubSeq(rest, 1, qm - 1),
         query |-> IF qm = 0 THEN <<>> ELSE DropChars(rest, qm),
         fragment |-> fragment]

ParseFragment(scheme, netloc, rest) ==
    LET hash == FirstOf(rest, {"#"}, 1)
    IN  IF hash = 0 THEN ParseQuery(scheme, netloc, rest, <<>>)
        ELSE ParseQuery(scheme, netloc, SubSeq(rest, 1, hash - 1), DropChars(rest, hash))

ParseNetloc(scheme, rest) ==
    LET netEnd == FirstOf(rest, {"/", "?", "#"}, 3)
    IN  IF ~StartsWith(rest, <<"/", "/">>) THEN ParseFragment(scheme, <<>>, rest)
        ELSE IF netEnd = 0 THEN ParseFragment(scheme, DropChars(rest, 2), <<>>)
        ELSE ParseFragment(scheme, SubSeq(rest, 3, netEnd - 1), DropChars(rest, netEnd - 1))

urlparse(url) ==
    LET colon == SchemeEnd(url)
    IN  IF colon = 0 THEN ParseNetloc(<<>>, url)
        ELSE ParseNetloc(Lower(SubSeq(url, 1, colon - 1)), DropChars(url, colon))

\* Code-point order of the characters URLs of the model are made of.
CharOrder == <<"#","&","+","-",".","/","0","1","2","3","4","5","6","7","8","9",":","=","?","A","B","C","D","E","F","G","H","I","J","K","L","M","N","O","P","Q","R","S","T","U","V","W","X","Y","Z","_","a","b","c","d","e","f","g","h","i","j","k","l","m","n","o","p","q","r","s","t","u","v","w","x","y","z">> (* #&+-./0123456789:=?ABCDEFGHIJKLMNOPQRSTUVWXYZ_abcdefghijklmnopqrstuvwxyz *)

Ord(c) == CHOOSE i \in 1..Len(CharOrder) : CharOrder[i] = c

\* a < b for Python strings.
RECURSIVE StrLess(_, _)
StrLess(a, b) ==
    IF b = <<>> THEN FALSE
    ELSE IF a = <<>> THEN TRUE
    ELSE IF a[1] = b[1] THEN StrLess(Tail(a), Tail(b))
    ELSE Ord(a[1]) < Ord(b[1])

\* parse_qs(query, keep_blank_values=True) as the list of <<name, value>>
\* pairs in query order (empty pieces skipped, a piece without "=" has value "").
QueryPairs(query) ==
    LET pieces == SplitOn(query, "&")
        pair(p) == LET eq == FirstOf(p, {"="}, 1)
                   IN  IF eq = 0 THEN <<p, <<>>>>
                       ELSE <<SubSeq(p, 1, eq - 1), DropChars(p, eq)>>
    IN  [i \in 1..Len(SelectSeq(pieces, LAMBDA p : p # <<>>)) |->
            pair(SelectSeq(pieces, LAMBDA p : p # <<>>)[i])]

\* Join the strings of a list with the character sep.
RECURSIVE JoinWith(_, _)
JoinWith(parts, sep) ==
    IF parts = <<>> THEN <<>>
    ELSE IF Len(parts) = 1 THEN parts[1]
    ELSE parts[1] \o <<sep>> \o JoinWith(Tail(parts), sep)

\* urlencode(sorted(parse_qs(query).items()), doseq=True): names in ascending
\* order, the values of one name in query order.
RECURSIVE EncodeSorted(_, _)
EncodeSorted(pairs, names) ==
    IF names = {} THEN <<>>
    ELSE LET least == CHOOSE n \in names : \A m \in names \ {n} : StrLess(n, m)
             mine  == SelectSeq(pairs, LAMBDA p : p[1] = least)
         IN  [i \in 1..Len(mine) |-> mine[i][1] \o <<"=">> \o mine[i][2]]
             \o EncodeSorted(pairs, names \ {least})

SortedQuery(query) ==
    LET pairs == QueryPairs(query)
    IN  JoinWith(EncodeSorted(pairs, { pairs[i][1] : i \in 1..Len(pairs) }), "&")

\* str.rstrip("/")
RECURSIVE RStripSlash(_)
RStripSlash(s) ==
    IF s # <<>> /\ s[Len(s)] = "/" THEN RStripSlash(SubSeq(s, 1, Len(s) - 1)) ELSE s

\* urlunparse((scheme, netloc, path, "", query, "")).
urlunparse(scheme, netloc, path, query) ==
    LET p1 == IF netloc # <<>>
              THEN <<"/", "/">> \o netloc
                   \o (IF path # <<>> /\ path[1] # "/" THEN <<"/">> ELSE <<>>) \o path
              ELSE path
        p2 == IF scheme # <<>> THEN scheme \o <<":">> \o p1 ELSE p1
    IN  IF query # <<>> THEN p2 \o <<"?">> \o query ELSE p2

\* Lines 21-24: netloc without a default port, where netloc.rsplit(":", 1)
\* splits at the last colon.
RemoveDefaultPort(scheme, netloc) ==
    LET colon == IF \E i \in 1..Len(netloc) : netloc[i] = ":"
                 THEN CHOOSE i \in 1..Len(netloc) :
                          netloc[i] = ":" /\ \A j \in (i + 1)..Len(netloc) : netloc[j] # ":"
                 ELSE 0
    IN  IF colon = 0 THEN netloc
        ELSE IF \/ scheme = <<"h","t","t","p">> (* http *) /\ DropChars(netloc, colon) = <<"8","0">> (* 80 *)
                \/ scheme = <<"h","t","t","p","s">> (* https *) /\ DropChars(netloc, colon) = <<"4","4","3">> (* 443 *)
        THEN SubSeq(netloc, 1, colon - 1)
        ELSE netloc

\* Lines 16-37 on the parsed URL.
CanonicalOfParsed(parsed) ==
    RStripSlash(urlunparse(Lower(parsed.scheme),
                           RemoveDefaultPort(Lower(parsed.scheme), Lower(parsed.netloc)),
                           parsed.path,
                           IF parsed.query # <<>> THEN SortedQuery(parsed.query) ELSE <<>>))

\* urlparse raises ValueError("Invalid IPv6 URL") when the netloc holds one
\* of "[" and "]" without the other.
UrlparseRaises(url) ==
    ("[" \in Range(urlparse(url).netloc)) # ("]" \in Range(urlparse(url).netloc))

\* canonicalize_url: the except clause (lines 38-39) returns the URL as given.
canonicalize_url(url) ==
    IF UrlparseRaises(url) THEN url ELSE CanonicalOfParsed(urlparse(url))

(***************************************************************************)
(* Deduplication (app/core/deduplication.py)                               *)
(***************************************************************************)

\* hashlib.sha256: the digest is modelled as an injective image of the
\* hashed text (no collisions).
Sha256(text) == <<"sha256">> \o text

\* compute_content_hash: SHA-256 of the lowercased, whitespace-collapsed text.
compute_content_hash(content) == Sha256(JoinSplit(Lower(content)))

\* s.lower().strip()
Normalize(s) == Strip(Lower(s))

\* datetime.date().isoformat(): a datetime is <<day, hour>>, its date the day.
DateIso(dt) == dt[1]

\* The four lookup sets built from existing_articles (lines 44-64).
SeenOfExisting(existing_articles) ==
    LET E == 1..Len(existing_articles)
        art(i) == existing_articles[i]
    IN  [ urls      |-> { Normalize(art(i).url) : i \in { j \in E : Truthy(art(j).url) } },
          canonical |-> { Normalize(art(i).canonical_url) :
                              i \in { j \in E : Truthy(art(j).canonical_url) } },
          hashes    |-> { art(i).content_hash : i \in { j \in E : Truthy(art(j).content_hash) } },
          tsd       |-> { <<Normalize(art(i).title), Normalize(art(i).source),
                            DateIso(art(i).published_at)>> :
                              i \in { j \in E : /\ Truthy(art(j).title)
                                                /\ Truthy(art(j).source)
                                                /\ art(j).published_at # None } } ]

\* The checks of lines 69-101 with the title and the source compared as
\* given, without .lower().strip().
IsDuplicate_RawTitle(article, seen) ==
    LET url           == Normalize(article.url)
        canonical_url == Normalize(article.canonical_url)
        published_at  == article.published_at
        content       == article.extracted_content
    IN  \/ url # <<>> /\ url \in seen.urls
        \/ canonical_url # <<>> /\ canonical_url \in seen.canonical
        \/ /\ article.title # <<>> /\ article.source # <<>> /\ published_at # None
           /\ <<article.title, article.source, DateIso(published_at)>> \in seen.tsd
        \/ content # <<>> /\ compute_content_hash(content) \in seen.hashes

\* One candidate against the seen sets: whether the loop body reaches
\* `continue` (lines 69-101).
IsDuplicate(article, seen) ==
    LET url           == Normalize(article.url)
        canonical_url == Normalize(article.canonical_url)
        title         == Normalize(article.title)
        source        == Normalize(article.source)
        published_at  == article.published_at
        content       == article.extracted_content
    IN  \/ url # <<>> /\ url \in seen.urls
        \/ canonical_url # <<>> /\ canonical_url \in seen.canonical
        \/ /\ title # <<>> /\ source # <<>> /\ published_at # None
           /\ <<title, source, DateIso(published_at)>> \in seen.tsd
        \/ content # <<>> /\ compute_content_hash(content) \in seen.hashes

\* The candidate as appended: content_hash is set when it carries content (line 102).
Kept(article) ==
    IF article.extracted_content # <<>>
    THEN [article EXCEPT !.content_hash = compute_content_hash(article.extracted_content)]
    ELSE article

\* The seen sets after a candidate is kept (lines 104-110).
AddToSeen(article, seen) ==
    LET url           == Normalize(article.url)
        canonical_url == Normalize(article.canonical_url)
        content       == article.extracted_content
    IN  [ seen EXCEPT
            !.urls      = IF url # <<>> THEN @ \cup {url} ELSE @,
            !.canonical = IF canonical_url # <<>> THEN @ \cup {canonical_url} ELSE @,
            !.hashes    = IF content # <<>> THEN @ \cup {compute_content_hash(content)} ELSE @ ]

\* The loop with the slip of removing from the list being walked: after a
\* duplicate is dropped the candidate that follows it is passed over, and
\* stays in the result unexamined.
RECURSIVE DedupLoop_PassOverAfterDrop(_, _, _, _)
DedupLoop_PassOverAfterDrop(articles, i, seen, deduplicated) ==
    IF i > Len(articles) THEN deduplicated
    ELSE IF IsDuplicate(articles[i], seen)
         THEN DedupLoop_PassOverAfterDrop(articles, i + 2, seen,
                  IF i + 1 <= Len(articles)
                  THEN Append(deduplicated, Kept(articles[i + 1]))
                  ELSE deduplicated)
         ELSE DedupLoop_PassOverAfterDrop(articles, i + 1, AddToSeen(articles[i], seen),
                                          Append(deduplicated, Kept(articles[i])))

\* The loop of deduplicate_articles over articles[i..] (lines 68-112).
RECURSIVE DedupLoop(_, _, _, _)
DedupLoop(articles, i, seen, deduplicated) ==
    IF i > Len(articles) THEN deduplicated
    ELSE IF IsDuplicate(articles[i], seen)
         THEN DedupLoop(articles, i + 1, seen, deduplicated)
         ELSE DedupLoop(articles, i + 1, AddToSeen(articles[i], seen),
                        Append(deduplicated, Kept(articles[i])))

deduplicate_articles(articles, existing_articles) ==
    DedupLoop(articles, 1, SeenOfExisting(existing_articles), <<>>)

(***************************************************************************)
(* The world of the model: directors, pages, texts                         *)
(***************************************************************************)

\* Texts the model works with, by key.  State variables hold the keys.
Text == [
    uA    |-> <<"h","t","t","p","s",":","/","/","X",".","c","o","m","/","a","?","b","=","2","&","a","=","1">> (* https://X.com/a?b=2&a=1 *),
    uA2   |-> <<"h","t","t","p","s",":","/","/","x",".","c","o","m",":","4","4","3","/","a","?","a","=","1","&","b","=","2","#","t","o","p">> (* https://x.com:443/a?a=1&b=2#top *),
    uB    |-> <<"h","t","t","p","s",":","/","/","y",".","c","o","m","/","b","/">> (* https://y.com/b/ *),
    tA    |-> <<"J","o","h","n"," ","D","o","e"," ","i","n"," ","f","o","c","u","s">> (* John Doe in focus *),
    tB    |-> <<"J","o","h","n"," ","D","o","e"," ","a","r","r","e","s","t","e","d">> (* John Doe arrested *),
    sA    |-> <<"J","o","h","n"," ","D","o","e"," ","a","n","d"," ","J","a","n","e"," ","R","o","e"," ","o","f"," ","A","B","C"," ","C","o","r","p">> (* John Doe and Jane Roe of ABC Corp *),
    sB    |-> <<>>,
    xRaid |-> <<"P","o","l","i","c","e"," ","r","a","i","d"," ","o","n"," ","J","o","h","n"," ","D","o","e"," ","a","n","d"," ","J","a","n","e"," ","R","o","e","."," ","F","r","a","u","d"," ","c","a","s","e"," ","f","i","l","e","d",".">> (* Police raid on John Doe and Jane Roe. Fraud case filed. *),
    xWin  |-> <<"J","o","h","n"," ","D","o","e"," ","a","n","d"," ","J","a","n","e"," ","R","o","e"," ","w","i","n"," ","a"," ","p","r","i","z","e">> (* John Doe and Jane Roe win a prize *),
    tActor |-> <<"J","o","h","n"," ","D","o","e"," ","t","h","e"," ","A","c","t","o","r"," ","w","i","n","s">> (* John Doe the Actor wins *),
    tJr    |-> <<"R","a","v","i"," ","R","a","o"," ","J","r","."," ","o","f"," ","A","c","m","e">> (* Ravi Rao Jr. of Acme *),
    tRavi  |-> <<"R","a","v","i"," ","R","a","o"," ","w","i","n","s">> (* Ravi Rao wins *),
    tCtx   |-> <<"A","c","m","e"," ","B","a","n","k"," ","F","u","n","d"," ","n","e","w","s">> (* Acme Bank Fund news *),
    tNone  |-> <<"M","a","r","k","e","t"," ","a","c","t","o","r","s">> (* Market actors *),
    sRavi  |-> <<"R","a","v","i"," ","R","a","o"," ","a","t"," ","A","c","m","e"," ","B","a","n","k">> (* Ravi Rao at Acme Bank *),
    sGoa   |-> <<"F","u","n","d"," ","m","a","n","a","g","e","r","s"," ","i","n"," ","G","o","a">> (* Fund managers in Goa *),
    xBoth  |-> <<"J","."," ","D","o","e"," ","a","n","d"," ","R","a","v","i"," ","R","a","o">> (* J. Doe and Ravi Rao *),
    xCtx   |-> <<"A","c","m","e"," ","B","a","n","k"," ","F","u","n","d"," ","r","e","p","o","r","t">> (* Acme Bank Fund report *),
    goa    |-> <<"g","o","a">> (* goa *),
    PANAJI |-> <<"P","A","N","A","J","I">> (* PANAJI *),
    hArrest |-> <<"D","i","r","e","c","t","o","r"," ","a","r","r","e","s","t","e","d"," ","f","o","r"," ","t","h","e","f","t">> (* Director arrested for theft *),
    hFraud  |-> <<"F","r","a","u","d"," ","b","y"," ","J","o","h","n"," ","D","o","e">> (* Fraud by John Doe *),
    hScam   |-> <<"S","c","a","m"," ","a","n","d"," ","d","i","s","p","u","t","e"," ","m","a","r"," ","a","w","a","r","d">> (* Scam and dispute mar award *),
    hAward  |-> <<"B","o","a","r","d"," ","h","o","n","o","u","r","s"," ","J","o","h","n"," ","D","o","e"," ","w","i","t","h"," ","a","n"," ","a","w","a","r","d">> (* Board honours John Doe with an award *),
    hCourt  |-> <<"H","e","a","r","i","n","g"," ","i","n"," ","c","o","u","r","t">> (* Hearing in court *),
    hSuit   |-> <<"C","o","u","r","t"," ","h","e","a","r","s"," ","c","i","v","i","l"," ","s","u","i","t">> (* Court hears civil suit *),
    hSebi   |-> <<"S","E","B","I"," ","p","e","n","a","l","t","y">> (* SEBI penalty *),
    hJail   |-> <<"S","e","n","t"," ","t","o"," ","j","a","i","l">> (* Sent to jail *),
    hAppoint   |-> <<"D","i","r","e","c","t","o","r"," ","a","p","p","o","i","n","t","e","d"," ","t","o"," ","b","o","a","r","d",","," ","r","e","c","e","i","v","e","s"," ","a","w","a","r","d">> (* Director appointed to board, receives award *),
    hMilestone |-> <<"M","i","l","e","s","t","o","n","e"," ","y","e","a","r"," ","f","o","r"," ","J","o","h","n"," ","D","o","e">> (* Milestone year for John Doe *),
    hProfit    |-> <<"R","e","c","o","r","d"," ","p","r","o","f","i","t">> (* Record profit *) ]

\* A text by key; the key "none" stands for None.
TextOf(k) == IF k = "none" THEN None ELSE Text[k]

\* A Director row as app/seed.py creates it.
DirectorRow(id, full_name, aliases, context_terms, negative_terms, is_active) ==
    [ id |-> id, full_name |-> full_name, first_name |-> None, middle_names |-> None,
      last_name |-> None, aliases |-> aliases, context_terms |-> context_terms,
      negative_terms |-> negative_terms, company_name |-> None,
      company_industry |-> None, listed_exchange |-> None,
      hq_state |-> None, hq_city |-> None,
      provider_gdelt_enabled |-> TRUE, provider_bing_enabled |-> TRUE,
      provider_serpapi_enabled |-> FALSE, provider_newsdata_enabled |-> FALSE,
      is_active |-> is_active ]

\* The directors table.
Directors == <<
    DirectorRow(1, <<"J","o","h","n"," ","D","o","e">> (* John Doe *), << <<"J","."," ","D","o","e">> (* J. Doe *) >>, << <<"A","B","C"," ","C","o","r","p">> (* ABC Corp *) >>, << <<"a","c","t","o","r">> (* actor *) >>, TRUE),
    DirectorRow(2, <<"J","a","n","e"," ","R","o","e">> (* Jane Roe *), <<>>, <<>>, <<>>, TRUE) >>

DirectorIds == { Directors[i].id : i \in 1..Len(Directors) }

\* db.query(Director).filter(Director.id == director_id).first()
DirectorById(director_id) == Directors[CHOOSE i \in 1..Len(Directors) : Directors[i].id = director_id]

\* The article_dict process_director builds for a search result (tasks.py 133-144).
CandidateDict(url, title, snippet) ==
    [ url |-> url, canonical_url |-> canonicalize_url(Text[url]),
      title |-> title, snippet |-> snippet ]

\* The search results the providers return in the model.
Candidates == { CandidateDict("uA", "tA", "sA"),
                CandidateDict("uA2", "tA", "sA"),
                CandidateDict("uB", "tB", "sB") }

\* What fetch_and_extract can return for a URL: an error, no text, or a text.
FetchOutcomes == {"error", "none", "xRaid"}

ContentKeys == {"xRaid", "xWin"}
TitleKeys   == {"tA", "tB"}
SnippetKeys == {"sA", "sB"}

\* resolve_director([director], title, snippet or "", content, 0.3) of
\* process_article (lines 243-251), tabulated over the texts of the model.
\* article.state and article.city are None: process_director passes neither.
MinConfidence == 30

Resolution == [ d \in DirectorIds, t \in TitleKeys, s \in SnippetKeys, c \in ContentKeys \cup {"none"} |->
    resolve_director(<<DirectorById(d)>>, Text[t], OrEmpty(Text[s]), TextOf(c),
                     MinConfidence, None, None) ]

\* classify_heuristic(title, snippet or "", content, "en", country_profile),
\* tabulated likewise (lines 290-296).
Heuristic == [ t \in TitleKeys, s \in SnippetKeys, c \in ContentKeys \cup {"none"} |->
    classify_heuristic(Text[t], OrEmpty(Text[s]), TextOf(c), "en", "IN") ]

\* An answer of the external service that parsed to a JSON object.
JsonAnswer(sentiment, severity, category, why_it_matters) ==
    [ kind |-> "object", sentiment |-> sentiment, severity |-> severity,
      category |-> category, why_it_matters |-> why_it_matters ]

\* The answers the external service gives in the pipeline: the call raises,
\* or the answer is a JSON object.
LLMAnswers == {
    [kind |-> "error"],
    JsonAnswer(JsonString("negative"), JsonString("high"), JsonString("legal_court"),
               JsonString("why")),
    JsonAnswer(JsonString("neutral"), JsonString("low"), JsonString("other"),
               JsonMissing),
    JsonAnswer(JsonString("negative"), JsonString("high"), JsonString("legal_court"),
               JsonObject) }

\* The members of the enumerations Sentiment, Severity and Category.
Sentiments == { sentiment_map[k] : k \in DOMAIN sentiment_map }
Severities == { severity_map[k] : k \in DOMAIN severity_map }
Categories == { category_map[k] : k \in DOMAIN category_map }

\* settings.confidence_threshold_alert (0.75), in hundredths.
ConfidenceThresholdAlert == 75

(***************************************************************************)
(* Bounds of the model                                                     *)
(***************************************************************************)

\* process_article jobs that may be enqueued.
MaxJobs == 2

\* Aborts (hard time limit, worker loss) of process_article jobs.
MaxAborts == 1

\* Crashes of a send_alert job between the send and the commit.
MaxCrashes == 1

\* Task(max_retries=3) of process_article.
MaxRetries == 3

(***************************************************************************)
(* State                                                                   *)
(***************************************************************************)

VARIABLES
    articles,       \* the articles table: a set of rows
    extracted,      \* the extracted_contents table
    mentions,       \* the mentions table
    reports,        \* the reports table
    nextId,         \* the id sequences of the tables
    use_llm,        \* settings.use_llm and settings.llm_api_key are set
    now,            \* the current day
    pa,             \* the process_article jobs
    aborts,         \* aborts so far
    alerts,         \* the send_alert jobs
    crashes,        \* send_alert crashes so far
    sent,           \* alert e-mails sent: mention id -> how many
    gr,             \* the generate_report jobs
    digests,        \* daily digest e-mails sent: report date -> how many
    files,          \* report files in storage: report date -> the stats rendered
    dd,             \* the deduplication run: candidates, history, results
    call,           \* a call of classify_llm or resolve_director: arguments, result
    pd              \* the process_director job

storeVars == <<articles, extracted, mentions, nextId>>
pipeVars  == <<use_llm, pa, aborts, alerts, crashes, sent>>
reportVars == <<reports, gr, digests, files>>
vars == <<articles, extracted, mentions, reports, nextId, use_llm, now, pa, aborts,
          alerts, crashes, sent, gr, digests, files, dd, call, pd>>

JobIds == 1..MaxJobs

IdleJob == [pc |-> "idle"]

\* A job that has returned: its arguments and locals are gone.
DoneJob == [pc |-> "done"]

\* Rows of a table matching a predicate.
ArticleById(id) == CHOOSE a \in articles : a.id = id
ContentOf(article_id) == { e \in extracted : e.article_id = article_id }

\* Line 172: article_dict.get("canonical_url") or canonicalize_url(url).
CanonicalUrlOf(article_dict) ==
    IF Truthy(article_dict.canonical_url) THEN article_dict.canonical_url
    ELSE canonicalize_url(Text[article_dict.url])

\* Article(...) of lines 185-202 for a candidate, as flushed (id assigned).
NewArticle(id, article_dict) ==
    [ id |-> id, url |-> article_dict.url, canonical_url |-> CanonicalUrlOf(article_dict),
      title |-> article_dict.title, snippet |-> article_dict.snippet,
      fetch_status |-> "pending", fetch_error |-> "none", created_at |-> now ]

\* The job's Article object: the committed row, or the pending insert.
JobArticle(job) ==
    IF job.is_new THEN NewArticle(job.article_id, job.article_dict)
    ELSE ArticleById(job.article_id)

\* The articles table after the job's session commits its Article with the
\* given fetch status and error: an INSERT of the pending row, or an UPDATE
\* of the two columns of the committed row.
CommitArticle(job, status, error) ==
    (articles \ { a \in articles : a.id = job.article_id })
    \cup { [JobArticle(job) EXCEPT !.fetch_status = status, !.fetch_error = error] }

(***************************************************************************)
(* process_article (tasks.py 161-328)                                      *)
(***************************************************************************)

\* process_article.delay(director_id, article_dict): process_director line 153.
Enqueue(j, director_id, article_dict) ==
    /\ pa[j].pc = "idle"
    /\ \A i \in JobIds : i < j => pa[i].pc # "idle"
    /\ pa' = [pa EXCEPT ![j] = [pc |-> "start", director_id |-> director_id,
                                article_dict |-> article_dict, retries |-> 0]]
    /\ UNCHANGED <<storeVars, use_llm, aborts, alerts, crashes, sent, now, reportVars, dd, call, pd>>

\* Lines 167-207: the director, the Article by canonical URL (created and
\* flushed when there is none), and whether it has extracted content.
PA_Start(j) ==
    LET job == pa[j]
        canonical_url == CanonicalUrlOf(job.article_dict)
        matching == { a \in articles : a.canonical_url = canonical_url }
    IN  /\ job.pc = "start"
        /\ IF job.director_id \notin DirectorIds   \* `if not director: return`
           THEN /\ pa' = [pa EXCEPT ![j] = DoneJob]
                /\ UNCHANGED nextId
           ELSE IF matching # {}
           THEN \* existing = query.first(): one of the matching rows
                /\ \E a \in matching :
                      pa' = [pa EXCEPT ![j] =
                                [job EXCEPT !.pc = IF ContentOf(a.id) # {} THEN "resolve" ELSE "fetch"]
                                @@ [article_id |-> a.id, is_new |-> FALSE]]
                /\ UNCHANGED nextId
           ELSE /\ pa' = [pa EXCEPT ![j] =
                             [job EXCEPT !.pc = "fetch"]
                             @@ [article_id |-> nextId.article, is_new |-> TRUE]]
                /\ nextId' = [nextId EXCEPT !.article = @ + 1]
        /\ UNCHANGED <<articles, extracted, mentions, use_llm, aborts, alerts, crashes,
                       sent, now, reportVars, dd, call, pd>>

\* Lines 208-239: fetch_and_extract, then the commit of the Article and of
\* its ExtractedContent.  (Language detection changes no modelled column.)
PA_Fetch(j) ==
    LET job == pa[j]
        art == JobArticle(job)
    IN  /\ job.pc = "fetch"
        /\ \E outcome \in FetchOutcomes :
              CASE outcome = "error" ->
                     \* lines 209-213
                     /\ articles' = CommitArticle(job, "failed", "fetch failed")
                     /\ pa' = [pa EXCEPT ![j] = DoneJob]
                     /\ UNCHANGED extracted
                [] outcome = "none" ->
                     \* lines 235-239
                     /\ articles' = CommitArticle(job, "failed", "No content extracted")
                     /\ pa' = [pa EXCEPT ![j] = [job EXCEPT !.pc = "resolve", !.is_new = FALSE]]
                     /\ UNCHANGED extracted
                [] OTHER ->
                     \* lines 215-234, 238-239
                     IF ContentOf(job.article_id) # {}
                     THEN \* unique(article_id) is violated at the flush: the
                          \* handler of line 324 rolls back and the job ends
                          /\ pa' = [pa EXCEPT ![j] = DoneJob]
                          /\ UNCHANGED <<articles, extracted>>
                     ELSE /\ articles' = CommitArticle(job, "success", art.fetch_error)
                          /\ extracted' = extracted \cup
                                { [ article_id |-> job.article_id, content |-> outcome,
                                    content_hash |-> compute_content_hash(Text[outcome]) ] }
                          /\ pa' = [pa EXCEPT ![j] = [job EXCEPT !.pc = "resolve", !.is_new = FALSE]]
        /\ UNCHANGED <<mentions, nextId, use_llm, aborts, alerts, crashes, sent, now,
                       reportVars, dd, call, pd>>

\* The content key of the article's ExtractedContent, "none" without one.
ExtractedText(article_id) ==
    IF ContentOf(article_id) = {} THEN "none"
    ELSE (CHOOSE e \in ContentOf(article_id) : TRUE).content

\* Lines 241-266: entity resolution, then the Mention existence check.
PA_Resolve(j) ==
    LET job  == pa[j]
        art  == ArticleById(job.article_id)
        text == ExtractedText(job.article_id)
        resolution == Resolution[job.director_id, art.title, art.snippet, text]
    IN  /\ job.pc = "resolve"
        /\ IF ~resolution.matched
           THEN pa' = [pa EXCEPT ![j] = DoneJob]
           ELSE IF \E m \in mentions : /\ m.director_id = resolution.director.id
                                       /\ m.article_id = art.id
           THEN pa' = [pa EXCEPT ![j] = DoneJob]
           ELSE pa' = [pa EXCEPT ![j] = [job EXCEPT !.pc = "classify"]
                                        @@ [text |-> text, confidence |-> resolution.confidence]]
        /\ UNCHANGED <<storeVars, use_llm, aborts, alerts, crashes, sent, now, reportVars, dd, call, pd>>

\* Mention(...) of lines 299-310 as inserted.
NewMention(id, director_id, article_id, confidence, classification) ==
    [ id |-> id, director_id |-> director_id, article_id |-> article_id,
      confidence |-> confidence, sentiment |-> classification.sentiment,
      severity |-> classification.severity, category |-> classification.category,
      is_reviewed |-> FALSE, is_confirmed |-> TRUE, alert_sent |-> FALSE,
      created_at |-> now ]

\* Lines 268-296: the external tier first when it is enabled, the heuristic
\* tier when it is disabled or classify_llm returned None.  The heuristic
\* why_it_matters is a str.
TierClassification(llm_enabled, answer, heuristic) ==
    LET llm == classify_llm(TRUE, answer)
    IN  IF llm_enabled /\ llm.ok
        THEN [ sentiment |-> llm.sentiment, severity |-> llm.severity,
               category |-> llm.category, why_it_matters |-> llm.why_it_matters ]
        ELSE [ sentiment |-> heuristic.sentiment, severity |-> heuristic.severity,
               category |-> heuristic.category, why_it_matters |-> JsonString("") ]

\* The INSERT of the Mention binds why_it_matters to a Text column: the
\* driver has no adaptation for a dict, and the flush raises.
MentionInsertable(classification) == classification.why_it_matters.kind # "object"

\* Lines 268-312: classification, then the insert and commit of the Mention.
\* When the flush raises, the handler of line 324 rolls back and the job ends.
PA_Classify(j) ==
    LET job == pa[j]
        art == ArticleById(job.article_id)
        heuristic == Heuristic[art.title, art.snippet, job.text]
    IN  /\ job.pc = "classify"
        /\ \E answer \in LLMAnswers :
              LET classification == TierClassification(use_llm, answer, heuristic)
              IN  IF MentionInsertable(classification)
                  THEN /\ mentions' = mentions \cup
                             { NewMention(nextId.mention, job.director_id, art.id,
                                          job.confidence, classification) }
                       /\ pa' = [pa EXCEPT ![j] = [job EXCEPT !.pc = "alert"]
                                                  @@ [mention_id |-> nextId.mention]]
                       /\ nextId' = [nextId EXCEPT !.mention = @ + 1]
                  ELSE /\ pa' = [pa EXCEPT ![j] = DoneJob]
                       /\ UNCHANGED <<mentions, nextId>>
        /\ UNCHANGED <<articles, extracted, use_llm, aborts, alerts, crashes, sent, now,
                       reportVars, dd, call, pd>>

\* The condition of lines 315-319 without its confidence conjunct.
ShouldAlert_NoConfidence(mention) ==
    /\ mention.severity = "HIGH"
    /\ ~mention.alert_sent

\* The condition of lines 315-319.
ShouldAlert(mention) ==
    /\ mention.severity = "HIGH"
    /\ mention.confidence >= ConfidenceThresholdAlert
    /\ ~mention.alert_sent

\* Lines 314-322: send_alert.delay(mention.id) when the condition holds.
PA_Alert(j) ==
    LET job == pa[j]
        mention == CHOOSE m \in mentions : m.id = job.mention_id
    IN  /\ job.pc = "alert"
        /\ alerts' = IF ShouldAlert(mention)
                     THEN alerts \cup { [mention_id |-> mention.id, pc |-> "queued"] }
                     ELSE alerts
        /\ pa' = [pa EXCEPT ![j] = DoneJob]
        /\ UNCHANGED <<storeVars, use_llm, aborts, crashes, sent, now, reportVars, dd, call, pd>>

\* The job is aborted (celery_app.py task_time_limit, or its worker is lost):
\* whatever its session had not committed is gone.
PA_Abort(j) ==
    /\ pa[j].pc \in {"start", "fetch", "resolve", "classify", "alert"}
    /\ aborts < MaxAborts
    /\ aborts' = aborts + 1
    /\ pa' = [pa EXCEPT ![j] = [pc |-> "aborted", director_id |-> pa[j].director_id,
                                article_dict |-> pa[j].article_dict,
                                retries |-> pa[j].retries]]
    /\ UNCHANGED <<storeVars, use_llm, alerts, crashes, sent, now, reportVars, dd, call, pd>>

\* The aborted job is run again with the same arguments (max_retries=3).
PA_Retry(j) ==
    /\ pa[j].pc = "aborted"
    /\ pa[j].retries < MaxRetries
    /\ pa' = [pa EXCEPT ![j] = [@ EXCEPT !.pc = "start", !.retries = @ + 1]]
    /\ UNCHANGED <<storeVars, use_llm, aborts, alerts, crashes, sent, now, reportVars, dd, call, pd>>

(***************************************************************************)
(* send_alert (tasks.py 331-346, core/email.py 46-101)                     *)
(* SessionLocal (app/database.py) is not among the sources: the refresh of *)
(* the mention that send_alert_email does in its own session is taken to   *)
(* succeed.                                                                *)
(***************************************************************************)

AlertJob(mention_id, pc) == [mention_id |-> mention_id, pc |-> pc]

SetAlertPc(mention_id, from, to) ==
    (alerts \ {AlertJob(mention_id, from)}) \cup {AlertJob(mention_id, to)}

\* Alert e-mails sent so far for a mention.
SentCount(mention_id) == IF mention_id \in DOMAIN sent THEN sent[mention_id] ELSE 0

\* Lines 338-340: load the mention; return when it is missing or alert_sent.
SA_Start(mention_id) ==
    /\ AlertJob(mention_id, "queued") \in alerts
    /\ alerts' = SetAlertPc(mention_id, "queued",
                    IF \E m \in mentions : m.id = mention_id /\ ~m.alert_sent
                    THEN "loaded" ELSE "done")
    /\ UNCHANGED <<storeVars, use_llm, pa, aborts, crashes, sent, now, reportVars, dd, call, pd>>

\* Line 342: send_alert_email(mention).
SA_Send(mention_id) ==
    /\ AlertJob(mention_id, "loaded") \in alerts
    /\ alerts' = SetAlertPc(mention_id, "loaded", "sending")
    /\ sent' = IF mention_id \in DOMAIN sent
               THEN [sent EXCEPT ![mention_id] = @ + 1]
               ELSE sent @@ (mention_id :> 1)
    /\ UNCHANGED <<storeVars, use_llm, pa, aborts, crashes, now, reportVars, dd, call, pd>>

\* Lines 343-344: mention.alert_sent = True; db.commit().
SA_Commit(mention_id) ==
    /\ AlertJob(mention_id, "sending") \in alerts
    /\ alerts' = SetAlertPc(mention_id, "sending", "done")
    /\ mentions' = { IF m.id = mention_id THEN [m EXCEPT !.alert_sent = TRUE] ELSE m :
                     m \in mentions }
    /\ UNCHANGED <<articles, extracted, nextId, use_llm, pa, aborts, crashes, sent, now,
                   reportVars, dd, call, pd>>

\* The job dies after the send and before the commit, and is run again.
SA_Crash(mention_id) ==
    /\ AlertJob(mention_id, "sending") \in alerts
    /\ crashes < MaxCrashes
    /\ crashes' = crashes + 1
    /\ alerts' = SetAlertPc(mention_id, "sending", "queued")
    /\ UNCHANGED <<storeVars, use_llm, pa, aborts, sent, now, reportVars, dd, call, pd>>

(***************************************************************************)
(* Spec: process_article jobs running concurrently (several workers, or    *)
(* one worker with several processes) next to the send_alert jobs they     *)
(* enqueue.                                                                *)
(***************************************************************************)

Init ==
    /\ articles = {} /\ extracted = {} /\ mentions = {} /\ reports = {}
    /\ nextId = [article |-> 1, mention |-> 1, report |-> 1]
    /\ use_llm = TRUE
    /\ now = 1
    /\ pa = [j \in JobIds |-> IdleJob]
    /\ aborts = 0 /\ crashes = 0
    /\ alerts = {}
    /\ sent = <<>>
    /\ gr = <<>> /\ digests = <<>> /\ files = <<>>
    /\ dd = <<>>
    /\ call = <<>>
    /\ pd = <<>>

AlertIds == { a.mention_id : a \in alerts }

Next ==
    \/ \E j \in JobIds, d \in DirectorIds, c \in Candidates : Enqueue(j, d, c)
    \/ \E j \in JobIds : PA_Start(j)
    \/ \E j \in JobIds : PA_Fetch(j)
    \/ \E j \in JobIds : PA_Resolve(j)
    \/ \E j \in JobIds : PA_Classify(j)
    \/ \E j \in JobIds : PA_Alert(j)
    \/ \E m \in AlertIds : SA_Start(m)
    \/ \E m \in AlertIds : SA_Send(m)
    \/ \E m \in AlertIds : SA_Commit(m)
    \/ \E m \in AlertIds : SA_Crash(m)

Spec == Init /\ [][Next]_vars

(***************************************************************************)
(* SpecRetry: the jobs of one worker process, one process_article at a     *)
(* time, where a job may be aborted at any point and run again.            *)
(***************************************************************************)

\* The worker takes the next process_article job when the previous one ended.
EnqueueNext(j, director_id, article_dict) ==
    /\ \A i \in JobIds : i < j => pa[i].pc = "done"
    /\ Enqueue(j, director_id, article_dict)

NextRetry ==
    \/ \E j \in JobIds, d \in DirectorIds, c \in Candidates : EnqueueNext(j, d, c)
    \/ \E j \in JobIds : PA_Start(j)
    \/ \E j \in JobIds : PA_Fetch(j)
    \/ \E j \in JobIds : PA_Resolve(j)
    \/ \E j \in JobIds : PA_Classify(j)
    \/ \E j \in JobIds : PA_Alert(j)
    \/ \E j \in JobIds : PA_Abort(j)
    \/ \E j \in JobIds : PA_Retry(j)
    \/ \E m \in AlertIds : SA_Start(m)
    \/ \E m \in AlertIds : SA_Send(m)
    \/ \E m \in AlertIds : SA_Commit(m)
    \/ \E m \in AlertIds : SA_Crash(m)

SpecRetry == Init /\ [][NextRetry]_vars

(***************************************************************************)
(* Properties of the pipeline                                              *)
(***************************************************************************)

\* Every process_article job enqueued has returned and every send_alert job
\* has ended.
PipelineQuiet ==
    /\ \A j \in JobIds : pa[j].pc \in {"idle", "done"}
    /\ \A a \in alerts : a.pc = "done"

\* C1: the mentions table holds at most one Mention per (director_id,
\* article_id) pair.
C1_OneMentionPerPair ==
    \A m1 \in mentions : \A m2 \in mentions :
        (m1.director_id = m2.director_id /\ m1.article_id = m2.article_id)
            => m1.id = m2.id

\* C2: the articles table holds at most one Article per canonical URL.
C2_OneArticlePerCanonicalUrl ==
    \A a1 \in articles : \A a2 \in articles :
        a1.canonical_url = a2.canonical_url => a1.id = a2.id

\* C3: the alert e-mail of a mention is sent at most once.
C3_AlertSentAtMostOnce ==
    \A mention_id \in DOMAIN sent : sent[mention_id] <= 1

\* C4: once every job has ended, the alert e-mail of every Mention with
\* severity HIGH and confidence at or above the alert threshold has been
\* sent (the finite form of "is eventually enqueued and sent").
C4_QualifyingMentionAlerted ==
    PipelineQuiet =>
        \A m \in mentions :
            (m.severity = "HIGH" /\ m.confidence >= ConfidenceThresholdAlert)
                => SentCount(m.id) >= 1

\* C5: an alert e-mail is sent for a mention only when, at that moment, the
\* mention has severity HIGH, confidence at or above the alert threshold and
\* alert_sent false; and every send_alert job ever enqueued is for a mention
\* with severity HIGH and confidence at or above the threshold.
C5_AlertOnlyWhenQualified ==
    /\ [][ \A mention_id \in DOMAIN sent' :
              SentCount(mention_id)' > SentCount(mention_id)
                  => \E m \in mentions : /\ m.id = mention_id
                                         /\ m.severity = "HIGH"
                                         /\ m.confidence >= ConfidenceThresholdAlert
                                         /\ ~m.alert_sent ]_vars
    /\ [] \A a \in alerts :
              \E m \in mentions : /\ m.id = a.mention_id
                                  /\ m.severity = "HIGH"
                                  /\ m.confidence >= ConfidenceThresholdAlert

\* C5's case: one mention was alerted, and a HIGH mention below the threshold
\* and a mention at the threshold that is not HIGH were left alone.
C5_Witness ==
    /\ PipelineQuiet
    /\ \E m \in mentions : SentCount(m.id) = 1 /\ m.alert_sent
    /\ \E m \in mentions : /\ m.confidence < ConfidenceThresholdAlert
                            /\ \/ m.severity = "HIGH"
                               \/ \E n \in mentions :
                                     n.severity # "HIGH"
                                     /\ n.confidence >= ConfidenceThresholdAlert
                            /\ SentCount(m.id) = 0

\* C10: no two ExtractedContent rows carry the same content_hash.
C10_ContentHashUnique ==
    \A e1 \in extracted : \A e2 \in extracted :
        e1.content_hash = e2.content_hash => e1.article_id = e2.article_id

(***************************************************************************)
(* generate_report (app/core/reporting.py 132-251)                        *)
(***************************************************************************)

\* generate_report calls that may be made.
MaxReportJobs == 2

\* Mentions the pipeline may commit while reports are generated.
MaxMentions == 2

\* The last day of the model's calendar.
MaxDay == 2

ReportJobIds == 1..MaxReportJobs
ReportDates == 1..MaxDay

\* The query of lines 149-159 without its is_confirmed filter.
ReportMentions_Unfiltered(report_date) ==
    { m \in mentions : /\ \E a \in articles : a.id = m.article_id
                       /\ m.created_at >= report_date - 1
                       /\ m.created_at <= report_date }

\* Lines 145-158: the confirmed mentions created on report_date or the day
\* before, joined to their article.
ReportMentions(report_date) ==
    { m \in mentions : /\ \E a \in articles : a.id = m.article_id
                       /\ m.created_at >= report_date - 1
                       /\ m.created_at <= report_date
                       /\ m.is_confirmed }

\* Lines 164-173: the stats dict.
ReportStats(ms) ==
    [ total_mentions  |-> Cardinality(ms),
      high_severity   |-> Cardinality({ m \in ms : m.severity = "HIGH" }),
      medium_severity |-> Cardinality({ m \in ms : m.severity = "MEDIUM" }),
      low_severity    |-> Cardinality({ m \in ms : m.severity = "LOW" }),
      positive        |-> Cardinality({ m \in ms : m.sentiment = "POSITIVE" }),
      negative        |-> Cardinality({ m \in ms : m.sentiment = "NEGATIVE" }),
      neutral         |-> Cardinality({ m \in ms : m.sentiment = "NEUTRAL" }),
      mixed           |-> Cardinality({ m \in ms : m.sentiment = "MIXED" }) ]

\* generate_daily_report.delay(report_date): api/admin.py 73, cli.py 64.
\* `late` records whether a Report of that date was already persisted when
\* the call was made.
GR_Call(j, report_date) ==
    /\ gr[j].pc = "idle"
    /\ \A i \in ReportJobIds : i < j => gr[i].pc # "idle"
    /\ gr' = [gr EXCEPT ![j] = [pc |-> "check", report_date |-> report_date,
                                late |-> \E r \in reports : r.report_date = report_date]]
    /\ UNCHANGED <<storeVars, reports, digests, files, now, pipeVars, dd, call, pd>>

\* The call without the lookup of lines 140-143: it always goes on to build.
GR_Check_NoLookup(j) ==
    /\ gr[j].pc = "check"
    /\ gr' = [gr EXCEPT ![j].pc = "build"]
    /\ UNCHANGED <<storeVars, reports, digests, files, now, pipeVars, dd, call, pd>>

\* Lines 140-143: return the existing Report of the date.
GR_Check(j) ==
    /\ gr[j].pc = "check"
    /\ IF \E r \in reports : r.report_date = gr[j].report_date
       THEN gr' = [gr EXCEPT ![j] =
                      [@ EXCEPT !.pc = "returned"]
                      @@ [result |-> (CHOOSE r \in reports :
                                         r.report_date = gr[j].report_date).id]]
       ELSE gr' = [gr EXCEPT ![j].pc = "build"]
    /\ UNCHANGED <<storeVars, reports, digests, files, now, pipeVars, dd, call, pd>>

\* Lines 145-225: query the mentions, build the stats, render, and write the
\* HTML and PDF files of the date.
GR_Build(j) ==
    /\ gr[j].pc = "build"
    /\ LET stats == ReportStats(ReportMentions(gr[j].report_date))
       IN  /\ gr' = [gr EXCEPT ![j] = [@ EXCEPT !.pc = "commit"] @@ [stats |-> stats]]
           /\ files' = [d \in DOMAIN files \cup {gr[j].report_date} |->
                           IF d = gr[j].report_date THEN stats ELSE files[d]]
    /\ UNCHANGED <<storeVars, reports, digests, now, pipeVars, dd, call, pd>>

\* Lines 228-236: insert the Report and commit; unique(report_date) makes the
\* commit of a second Report of the date fail, and the call raises.
GR_Commit(j) ==
    /\ gr[j].pc = "commit"
    /\ IF \E r \in reports : r.report_date = gr[j].report_date
       THEN /\ gr' = [gr EXCEPT ![j].pc = "raised"]
            /\ UNCHANGED <<reports, nextId>>
       ELSE /\ reports' = reports \cup
                   { [ id |-> nextId.report, report_date |-> gr[j].report_date,
                       html_path |-> gr[j].report_date, pdf_path |-> gr[j].report_date,
                       stats |-> gr[j].stats, created_at |-> now ] }
            /\ nextId' = [nextId EXCEPT !.report = @ + 1]
            /\ gr' = [gr EXCEPT ![j] = [@ EXCEPT !.pc = "email"]
                                       @@ [result |-> nextId.report]]
    /\ UNCHANGED <<articles, extracted, mentions, digests, files, now, pipeVars, dd, call, pd>>

\* Daily digest e-mails sent so far for a date.
DigestCount(d) == IF d \in DOMAIN digests THEN digests[d] ELSE 0

\* Lines 241-249: send the daily digest (a failure is logged), return the Report.
GR_Email(j) ==
    /\ gr[j].pc = "email"
    /\ \E delivered \in BOOLEAN :
          digests' = IF ~delivered THEN digests
                     ELSE [d \in DOMAIN digests \cup {gr[j].report_date} |->
                              IF d = gr[j].report_date THEN DigestCount(d) + 1
                              ELSE digests[d]]
    /\ gr' = [gr EXCEPT ![j].pc = "returned"]
    /\ UNCHANGED <<storeVars, reports, files, now, pipeVars, dd, call, pd>>

\* What the pipeline does to the mentions table meanwhile: process_article
\* commits a Mention (tasks.py 299-312) of an existing article.
MentionCommitted(director_id, confidence, classification) ==
    /\ nextId.mention <= MaxMentions
    /\ \E a \in articles :
          mentions' = mentions \cup
              { NewMention(nextId.mention, director_id, a.id, confidence, classification) }
    /\ nextId' = [nextId EXCEPT !.mention = @ + 1]
    /\ UNCHANGED <<articles, extracted, reportVars, now, pipeVars, dd, call, pd>>

\* review_item writing alert_sent = False as well.
review_item_ResetsAlert(item_id, is_confirmed) ==
    /\ \E item \in mentions : item.id = item_id
    /\ mentions' = { IF m.id = item_id
                     THEN [m EXCEPT !.is_reviewed = TRUE, !.is_confirmed = is_confirmed,
                                    !.alert_sent = FALSE]
                     ELSE m : m \in mentions }
    /\ UNCHANGED <<articles, extracted, nextId, reportVars, now, pipeVars, dd, call, pd>>

\* review_item (app/api/items.py 121-135).
review_item(item_id, is_confirmed) ==
    /\ \E item \in mentions : item.id = item_id
    /\ mentions' = { IF m.id = item_id
                     THEN [m EXCEPT !.is_reviewed = TRUE, !.is_confirmed = is_confirmed]
                     ELSE m : m \in mentions }
    /\ UNCHANGED <<articles, extracted, nextId, reportVars, now, pipeVars, dd, call, pd>>

\* Midnight.
Tick ==
    /\ now < MaxDay
    /\ now' = now + 1
    /\ UNCHANGED <<storeVars, reportVars, pipeVars, dd, call, pd>>

\* The (director, confidence, title) of the mentions committed meanwhile.
ReportedResolutions ==
    { [director |-> 1, confidence |-> 80, title |-> "tB"],
      [director |-> 2, confidence |-> 40, title |-> "tA"] }

InitReport ==
    /\ now = 1
    /\ articles = { [NewArticle(1, CandidateDict("uA", "tA", "sA")) EXCEPT
                        !.fetch_status = "failed", !.fetch_error = "No content extracted"] }
    /\ extracted = {} /\ mentions = {} /\ reports = {}
    /\ nextId = [article |-> 2, mention |-> 1, report |-> 1]
    /\ use_llm = TRUE
    /\ pa = [j \in JobIds |-> IdleJob]
    /\ aborts = 0 /\ crashes = 0
    /\ alerts = {}
    /\ sent = <<>>
    /\ gr = [j \in ReportJobIds |-> IdleJob]
    /\ digests = <<>> /\ files = <<>>
    /\ dd = <<>>
    /\ call = <<>>
    /\ pd = <<>>

NextReport ==
    \/ \E j \in ReportJobIds, d \in ReportDates : GR_Call(j, d)
    \/ \E j \in ReportJobIds : GR_Check(j)
    \/ \E j \in ReportJobIds : GR_Build(j)
    \/ \E j \in ReportJobIds : GR_Commit(j)
    \/ \E j \in ReportJobIds : GR_Email(j)
    \/ \E r \in ReportedResolutions :
          MentionCommitted(r.director, r.confidence, Heuristic[r.title, "sB", "none"])
    \/ \E m \in mentions, c \in BOOLEAN : review_item(m.id, c)
    \/ Tick

SpecReport == InitReport /\ [][NextReport]_vars

\* C6: the reports table never holds two Reports of one date; and a
\* generate_report call made when a Report of its date is already persisted
\* does one thing only: it returns that Report, leaving the reports table
\* (row count, stats, file pointers), the report files and the digest
\* e-mails sent as they were, whatever happened to the mentions in between.
C6_LaterCallIsNoOp ==
    /\ [] \A r1 \in reports : \A r2 \in reports :
              r1.report_date = r2.report_date => r1 = r2
    /\ [][ \A j \in ReportJobIds :
              (gr[j].pc # "idle" /\ gr[j].late /\ gr'[j] # gr[j])
                  => /\ reports' = reports
                     /\ files' = files
                     /\ digests' = digests
                     /\ gr'[j].pc = "returned"
                     /\ \E r \in reports : /\ r.report_date = gr[j].report_date
                                           /\ gr'[j].result = r.id ]_vars

\* C6's case: a call made after the Report of its date was persisted has
\* returned, and by then the confirmed mentions of the window no longer
\* add up to the stats the Report holds.
C6_Witness ==
    \E j \in ReportJobIds :
        /\ gr[j].pc = "returned"
        /\ gr[j].late
        /\ \E r \in reports :
              /\ r.id = gr[j].result
              /\ r.stats # ReportStats(ReportMentions(r.report_date))
              /\ DigestCount(r.report_date) = 1

\* The mentions of the table that are confirmed and were created on
\* report_date or on the day before it.
ConfirmedInWindow(report_date) ==
    { m \in mentions : /\ m.is_confirmed
                       /\ m.created_at \in (report_date - 1)..report_date }

\* The severity counts and the sentiment counts of a stats dict each add up
\* to its total.
StatsAddUp(stats) ==
    /\ stats.high_severity + stats.medium_severity + stats.low_severity
           = stats.total_mentions
    /\ stats.positive + stats.negative + stats.neutral + stats.mixed
           = stats.total_mentions

MaxCandidates == 3

\* Articles in a history.
MaxHistory == 1

\* A candidate dict as process_director builds it (tasks.py 133-144), with
\* the extracted text a caller may attach.
DedupCandidate(url, title, source, published_at, extracted_content) ==
    [ url |-> url, canonical_url |-> canonicalize_url(url), title |-> title,
      source |-> source, published_at |-> published_at,
      extracted_content |-> extracted_content, content_hash |-> None ]

\* The candidates lists are made of: the same page under three spellings of
\* its URL, a second page with the title, source and day of the first, and
\* a third page with the text of another one up to case and spacing.
CandidatePool ==
    { DedupCandidate(<<"h","t","t","p","s",":","/","/","x",".","c","o","m","/","a">> (* https://x.com/a *), <<"R","a","i","d">> (* Raid *), <<"W","i","r","e">> (* Wire *), <<1, 9>>, <<>>),
      DedupCandidate(<<"h","t","t","p","s",":","/","/","X",".","c","o","m","/","a">> (* https://X.com/a *), <<"R","a","i","d"," ","o","n"," ","A","B","C">> (* Raid on ABC *), <<"P","o","s","t">> (* Post *), <<2, 9>>, <<>>),
      DedupCandidate(<<"h","t","t","p","s",":","/","/","x",".","c","o","m","/","a","#","t","o","p">> (* https://x.com/a#top *), <<>>, <<>>, None, <<"f","r","a","u","d"," ","c","a","s","e">> (* fraud case *)),
      DedupCandidate(<<"h","t","t","p","s",":","/","/","y",".","c","o","m","/","b">> (* https://y.com/b *), <<"R","a","i","d">> (* Raid *), <<"W","i","r","e">> (* Wire *), <<1, 17>>, <<>>),
      DedupCandidate(<<"h","t","t","p","s",":","/","/","z",".","c","o","m","/","c">> (* https://z.com/c *), <<"F","r","a","u","d">> (* Fraud *), <<"D","e","s","k">> (* Desk *), <<2, 9>>, <<"F","r","a","u","d"," "," ","c","a","s","e">> (* Fraud  case *)) }

\* An Article row of the history with its ExtractedContent.content_hash
\* (None without extracted content).
HistoryArticle(url, title, source, published_at, content_hash) ==
    [ url |-> url, canonical_url |-> canonicalize_url(url), title |-> title,
      source |-> source, published_at |-> published_at, content_hash |-> content_hash ]

HistoryPool ==
    { HistoryArticle(<<"h","t","t","p","s",":","/","/","x",".","c","o","m","/","a">> (* https://x.com/a *), <<"O","t","h","e","r">> (* Other *), <<"O","t","h","e","r">> (* Other *), <<1, 1>>, None),
      HistoryArticle(<<"h","t","t","p","s",":","/","/","q",".","c","o","m","/","e">> (* https://q.com/e *), <<"R","A","I","D"," ">> (* RAID  *), <<"w","i","r","e">> (* wire *), <<1, 3>>, None),
      HistoryArticle(<<"h","t","t","p","s",":","/","/","q",".","c","o","m","/","f">> (* https://q.com/f *), <<"O","l","d">> (* Old *), <<>>, None,
                     compute_content_hash(<<"F","r","a","u","d"," ","c","a","s","e">> (* Fraud case *))) }

\* The lists of at most n elements of a set.
ListsOf(S, n) == UNION { [1..k -> S] : k \in 0..n }

DD_Dedup ==
    /\ dd.pc = "start"
    /\ dd' = [dd EXCEPT !.pc = "once", !.once = deduplicate_articles(dd.X, dd.H)]
    /\ UNCHANGED <<storeVars, reportVars, now, pipeVars, call, pd>>

DD_Again ==
    /\ dd.pc = "once"
    /\ dd' = [dd EXCEPT !.pc = "twice", !.twice = deduplicate_articles(dd.once, dd.H)]
    /\ UNCHANGED <<storeVars, reportVars, now, pipeVars, call, pd>>

InitDedup ==
    /\ articles = {} /\ extracted = {} /\ mentions = {} /\ reports = {}
    /\ nextId = [article |-> 1, mention |-> 1, report |-> 1]
    /\ use_llm = TRUE
    /\ now = 1
    /\ pa = [j \in JobIds |-> IdleJob]
    /\ aborts = 0 /\ crashes = 0
    /\ alerts = {}
    /\ sent = <<>>
    /\ gr = <<>> /\ digests = <<>> /\ files = <<>>
    /\ dd \in { [pc |-> "start", X |-> x, H |-> h, once |-> <<>>, twice |-> <<>>] :
                   x \in ListsOf(CandidatePool, MaxCandidates),
                   h \in ListsOf(HistoryPool, MaxHistory) }
    /\ call = <<>>
    /\ pd = <<>>

NextDedup == DD_Dedup \/ DD_Again

SpecDedup == InitDedup /\ [][NextDedup]_vars

\* The date-bearing key of a record, when its title, source and date are
\* all present.
HasTriple(a) == a.title # <<>> /\ a.source # <<>> /\ a.published_at # None
TripleOf(a) == <<Normalize(a.title), Normalize(a.source), DateIso(a.published_at)>>

\* Two candidates share one of the four keys.
ShareKey(a, b) ==
    \/ Normalize(a.url) # <<>> /\ Normalize(a.url) = Normalize(b.url)
    \/ Normalize(a.canonical_url) # <<>>
       /\ Normalize(a.canonical_url) = Normalize(b.canonical_url)
    \/ HasTriple(a) /\ HasTriple(b) /\ TripleOf(a) = TripleOf(b)
    \/ /\ a.extracted_content # <<>> /\ b.extracted_content # <<>>
       /\ compute_content_hash(a.extracted_content)
              = compute_content_hash(b.extracted_content)

\* A candidate matches an article of the history on one of the four keys.
MatchesHistory(a, h) ==
    \/ Normalize(a.url) # <<>> /\ Normalize(a.url) = Normalize(h.url)
    \/ Normalize(a.canonical_url) # <<>>
       /\ Normalize(a.canonical_url) = Normalize(h.canonical_url)
    \/ HasTriple(a) /\ HasTriple(h) /\ TripleOf(a) = TripleOf(h)
    \/ /\ a.extracted_content # <<>>
       /\ compute_content_hash(a.extracted_content) = h.content_hash

\* The candidate is among the returned ones.
Returned(a, result) ==
    \E k \in 1..Len(result) : [result[k] EXCEPT !.content_hash = None] = a

\* C7: deduplicating the result of a deduplication against the same history
\* gives that result again, same candidates in the same order.
C7_DedupIdempotent ==
    dd.pc = "twice" => dd.twice = dd.once

\* C7's case: the first pass dropped a candidate and kept several.
C7_Witness ==
    /\ dd.pc = "twice"
    /\ Len(dd.once) >= 2
    /\ Len(dd.once) < Len(dd.X)
    /\ dd.H # <<>>

\* C8: no two candidates of the result share a normalized URL, a canonical
\* URL, a (title, source, date) triple or a content hash.
C8_NoSharedKeyInResult ==
    dd.pc # "start" =>
        \A i \in 1..Len(dd.once) : \A j \in 1..Len(dd.once) :
            i < j => ~ShareKey(dd.once[i], dd.once[j])

\* C9: no returned candidate matches an article of the history on any of
\* the four keys, and a candidate that matches neither the history nor an
\* earlier returned candidate is returned.
C9_HistoryExcludedOthersKept ==
    dd.pc # "start" =>
        /\ \A k \in 1..Len(dd.once) : \A h \in 1..Len(dd.H) :
               ~MatchesHistory(dd.once[k], dd.H[h])
        /\ \A i \in 1..Len(dd.X) :
               ( /\ \A h \in 1..Len(dd.H) : ~MatchesHistory(dd.X[i], dd.H[h])
                 /\ \A k \in 1..(i - 1) :
                        Returned(dd.X[k], dd.once) => ~ShareKey(dd.X[i], dd.X[k]) )
               => Returned(dd.X[i], dd.once)

\* C9's case: one candidate was dropped for matching the history on the
\* triple alone, and another one was returned.
C9_Witness ==
    /\ dd.pc = "once"
    /\ dd.once # <<>>
    /\ \E i \in 1..Len(dd.X) : \E h \in 1..Len(dd.H) :
          /\ ~Returned(dd.X[i], dd.once)
          /\ HasTriple(dd.X[i]) /\ HasTriple(dd.H[h])
          /\ TripleOf(dd.X[i]) = TripleOf(dd.H[h])
          /\ Normalize(dd.X[i].url) # Normalize(dd.H[h].url)
          /\ \A k \in 1..(i - 1) : ~ShareKey(dd.X[i], dd.X[k])

(***************************************************************************)
(* Properties of fetching, classification and entity resolution            *)
(***************************************************************************)

\* C11: a fetch step of process_article that fails (fetch error, or no text
\* extracted) leaves the Article with fetch_status "failed" and a fetch_error,
\* stores no ExtractedContent, and the job whose fetch yielded no text
\* creates no Mention.
C11_FailedFetchNoMention ==
    /\ [] \A a \in articles : a.fetch_status = "failed" => a.fetch_error # "none"
    /\ [][ \A j \in JobIds :
              /\ ( /\ pa[j].pc = "fetch"
                   /\ pa'[j].pc # "fetch"
                   /\ \E a \in articles' : /\ a.id = pa[j].article_id
                                           /\ a.fetch_status = "failed"
                                           /\ a \notin articles )
                     => extracted' = extracted
              /\ ( /\ pa[j].pc = "classify"
                   /\ pa'[j].pc # "classify"
                   /\ pa[j].text = "none" )
                     => mentions' = mentions ]_vars

\* C12: a process_article job that reaches classification (entity resolution
\* matched, no Mention existed) always persists a Mention whose sentiment,
\* severity and category are members of the enumerations, whatever the
\* external service answered; when the external tier raised, the values are
\* those of the heuristic tier.
C12_MentionAlwaysClassified ==
    [][ \A j \in JobIds :
          (pa[j].pc = "classify" /\ pa'[j].pc # "classify")
              => \E m \in mentions' \ mentions :
                    /\ m.director_id = pa[j].director_id
                    /\ m.article_id = pa[j].article_id
                    /\ m.sentiment \in Sentiments
                    /\ m.severity \in Severities
                    /\ m.category \in Categories ]_vars

(***************************************************************************)
(* SpecClassify: one classification, as lines 268-296 of process_article   *)
(* make it with the external tier enabled, for every answer of a pool of   *)
(* answers and for texts the heuristic tier classifies differently.        *)
(***************************************************************************)

\* The values an answer may hold under "sentiment", "severity", "category".
SentimentValues == { JsonMissing, JsonNull, JsonArray, JsonString("negative"),
                     JsonString("mixed"), JsonString("bogus"), JsonString("NEGATIVE") }
SeverityValues == { JsonMissing, JsonArray, JsonString("high"), JsonString("bogus") }
CategoryValues == { JsonMissing, JsonObject, JsonString("litigation"), JsonString("bogus") }

\* The answers of the external service: the call raises, the text is not
\* JSON, the JSON is not an object, or it is an object.
AnswerPool ==
    { [kind |-> "error"], [kind |-> "text"], [kind |-> "array"] }
    \cup { JsonAnswer(s, v, c, JsonString("why")) :
              s \in SentimentValues, v \in SeverityValues, c \in CategoryValues }

\* The articles classified: (title, snippet, content) keys.
ClassifiedTexts == { <<"tB", "sB", "xRaid">>, <<"tA", "sA", "xWin">> }

\* classify_llm is called (lines 274-280).
CL_Llm ==
    /\ call.pc = "start"
    /\ call' = [call EXCEPT !.pc = "llm", !.llm = classify_llm(TRUE, call.answer)]
    /\ UNCHANGED <<storeVars, reportVars, now, pipeVars, dd, pd>>

\* The classification the Mention is built from (lines 288-296).
CL_Tier ==
    /\ call.pc = "llm"
    /\ call' = [call EXCEPT
                   !.pc = "done",
                   !.classification =
                       TierClassification(TRUE, call.answer,
                                          Heuristic[call.text[1], call.text[2], call.text[3]])]
    /\ UNCHANGED <<storeVars, reportVars, now, pipeVars, dd, pd>>

InitClassify ==
    /\ articles = {} /\ extracted = {} /\ mentions = {} /\ reports = {}
    /\ nextId = [article |-> 1, mention |-> 1, report |-> 1]
    /\ use_llm = TRUE
    /\ now = 1
    /\ pa = [j \in JobIds |-> IdleJob]
    /\ aborts = 0 /\ crashes = 0
    /\ alerts = {}
    /\ sent = <<>>
    /\ gr = <<>> /\ digests = <<>> /\ files = <<>>
    /\ dd = <<>>
    /\ call \in { [ pc |-> "start", answer |-> a, text |-> t,
                    llm |-> NoClassification, classification |-> NoClassification ] :
                     a \in AnswerPool, t \in ClassifiedTexts }
    /\ pd = <<>>

NextClassify == CL_Llm \/ CL_Tier

SpecClassify == InitClassify /\ [][NextClassify]_vars

\* A value that names a member of the enumeration of a map.
InEnumeration(map, v) == v.kind = "string" /\ v.value \in DOMAIN map

\* A value that is present in the answer and names no member.
OutOfEnumeration(map, v) == v.kind # "missing" /\ ~InEnumeration(map, v)

\* The heuristic classification of the article of the call.
HeuristicOfCall == Heuristic[call.text[1], call.text[2], call.text[3]]

\* C13: when the answer of the external service holds a sentiment, severity
\* or category outside its enumeration, the classification used for the
\* Mention is the one the heuristic tier computes.
C13_OutOfEnumerationFallsBack ==
    ( /\ call.pc = "done"
      /\ call.answer.kind = "object"
      /\ \/ OutOfEnumeration(sentiment_map, call.answer.sentiment)
         \/ OutOfEnumeration(severity_map, call.answer.severity)
         \/ OutOfEnumeration(category_map, call.answer.category) )
    => /\ call.classification.sentiment = HeuristicOfCall.sentiment
       /\ call.classification.severity = HeuristicOfCall.severity
       /\ call.classification.category = HeuristicOfCall.category

\* C14: for an answer that parsed to a JSON object, classify_llm returns a
\* dict (not None) in which each of sentiment, severity and category is the
\* member its value names, and NEUTRAL, LOW, OTHER where the value is
\* missing or names no member.
C14_DefaultsForUnknownValues ==
    (call.pc # "start" /\ call.answer.kind = "object")
    => /\ call.llm.ok
       /\ call.llm.sentiment =
              IF InEnumeration(sentiment_map, call.answer.sentiment)
              THEN sentiment_map[call.answer.sentiment.value] ELSE "NEUTRAL"
       /\ call.llm.severity =
              IF InEnumeration(severity_map, call.answer.severity)
              THEN severity_map[call.answer.severity.value] ELSE "LOW"
       /\ call.llm.category =
              IF InEnumeration(category_map, call.answer.category)
              THEN category_map[call.answer.category.value] ELSE "OTHER"

(***************************************************************************)
(* process_director (tasks.py 79-158)                                      *)
(* SpecDirector: one process_director job, where every search of a         *)
(* provider either returns its candidates or raises.                       *)
(***************************************************************************)

\* build_queries (tasks.py 389-445), each query by its kind: the recall
\* query, the context query when the director has context terms, the two
\* India queries or the generic one, the positive query; at most 6.
build_queries(director, country_profile) ==
    LET queries ==
            <<"recall">>
            \o (IF get_all_context_terms(director) # <<>> THEN <<"context">> ELSE <<>>)
            \o (IF country_profile = "IN" THEN <<"regulatory", "legal">> ELSE <<"generic">>)
            \o <<"positive">>
    IN  SubSeq(queries, 1, Min(Len(queries), 6))

\* provider.is_available(): GDELT needs no key, the others need theirs.
is_available(provider, keys) == provider = "gdelt" \/ provider \in keys

\* The providers of lines 93-101, in that order.
ProvidersOf(director, provider_names, keys) ==
    LET enabled == [ gdelt |-> director.provider_gdelt_enabled,
                     bing |-> director.provider_bing_enabled,
                     serpapi |-> director.provider_serpapi_enabled,
                     newsdata |-> director.provider_newsdata_enabled
                                  /\ is_available("newsdata", keys) ]
    IN  SelectSeq(<<"gdelt", "bing", "serpapi", "newsdata">>,
                  LAMBDA p : p \in provider_names /\ enabled[p])

\* Results of one search that outnumber the fan-out limit.
BulkSize == 21

\* The two decimal digits of a number below 100.
TwoDigits(i) == << DigitChars[((i \div 10) % 10) + 1], DigitChars[(i % 10) + 1] >>

\* BulkSize candidates of different pages and titles.
BulkResults ==
    [ i \in 1..BulkSize |->
        DedupCandidate(<<"h","t","t","p","s",":","/","/","n",".","c","o","m","/">> (* https://n.com/ *) \o TwoDigits(i), <<"I","t","e","m"," ">> (* Item  *) \o TwoDigits(i),
                       <<"F","e","e","d">> (* Feed *), <<2, 9>>, <<>>) ]

\* What a provider returns for a query when its search succeeds: the
\* candidate dicts of lines 133-144.
SearchResults(provider, query) ==
    IF provider = "gdelt" /\ query = "recall"
    THEN << DedupCandidate(<<"h","t","t","p","s",":","/","/","x",".","c","o","m","/","a">> (* https://x.com/a *), <<"R","a","i","d">> (* Raid *), <<"W","i","r","e">> (* Wire *), <<1, 9>>, <<>>) >>
    ELSE IF provider = "gdelt" /\ query = "positive"
    THEN << DedupCandidate(<<"h","t","t","p","s",":","/","/","z",".","c","o","m","/","c">> (* https://z.com/c *), <<"F","r","a","u","d">> (* Fraud *), <<"D","e","s","k">> (* Desk *), <<2, 9>>, <<>>) >>
    ELSE IF provider = "bing" /\ query = "recall"
    THEN << DedupCandidate(<<"h","t","t","p","s",":","/","/","X",".","c","o","m","/","a">> (* https://X.com/a *), <<"R","a","i","d"," ","o","n"," ","A","B","C">> (* Raid on ABC *), <<"P","o","s","t">> (* Post *), <<2, 9>>, <<>>),
            DedupCandidate(<<"h","t","t","p","s",":","/","/","y",".","c","o","m","/","b">> (* https://y.com/b *), <<"R","a","i","d">> (* Raid *), <<"P","o","s","t">> (* Post *), <<1, 17>>, <<>>) >>
    ELSE IF provider = "bing" /\ query = "generic"
    THEN BulkResults
    ELSE <<>>

\* `deduplicated[:20]` of line 151.
FanOutLimit == 20

\* process_article.delay calls of one run that may raise.
MaxEnqueueFailures == 1

\* Line 84: the Director row the job finds.  Since the job was enqueued the
\* row may have been deleted (None) or marked inactive.
PD_Director(job) ==
    IF job.row = "missing" THEN None
    ELSE [DirectorById(job.director_id) EXCEPT !.is_active = (job.row = "active")]

\* Lines 85-103: the director, the queries, the providers.
PD_Start ==
    /\ pd.pc = "start"
    /\ LET director == PD_Director(pd)
       IN  IF pd.row = "missing" \/ ~director.is_active
           THEN pd' = [pd EXCEPT !.pc = "done"]
           ELSE pd' = [pd EXCEPT !.pc = "search",
                                 !.queries = build_queries(director, pd.country_profile),
                                 !.providers = ProvidersOf(director, pd.provider_names, pd.keys),
                                 !.i = 1, !.k = 1]
    /\ UNCHANGED <<storeVars, reportVars, now, pipeVars, dd, call>>

\* The loop position after the query k of the provider i.
AfterQuery(job) ==
    IF job.k < Len(job.queries) THEN [job EXCEPT !.k = @ + 1]
    ELSE [job EXCEPT !.i = @ + 1, !.k = 1]

\* The search of a provider that raised, where the exception ends the
\* searches of that provider.
PD_Search_SkipProviderOnError ==
    /\ pd.pc = "search"
    /\ IF pd.i > Len(pd.providers)
       THEN pd' = [pd EXCEPT !.pc = "dedup"]
       ELSE IF ~is_available(pd.providers[pd.i], pd.keys)
       THEN pd' = [pd EXCEPT !.i = @ + 1, !.k = 1]
       ELSE LET provider == pd.providers[pd.i]
                query == pd.queries[pd.k]
            IN  \/ pd' = [AfterQuery(pd) EXCEPT
                             !.all_candidates = @ \o SearchResults(provider, query),
                             !.log = Append(@, <<provider, query, TRUE>>)]
                \/ pd' = [pd EXCEPT !.i = @ + 1, !.k = 1,
                                    !.log = Append(@, <<provider, query, FALSE>>)]
    /\ UNCHANGED <<storeVars, reportVars, now, pipeVars, dd, call>>

\* Lines 108-125: one step of the loops over providers and queries.  A
\* provider that is not available is passed over; provider.search(query_spec)
\* returns its candidates, which are appended, or raises, which is logged.
PD_Search ==
    /\ pd.pc = "search"
    /\ IF pd.i > Len(pd.providers)
       THEN pd' = [pd EXCEPT !.pc = "dedup"]
       ELSE IF ~is_available(pd.providers[pd.i], pd.keys)
       THEN pd' = [pd EXCEPT !.i = @ + 1, !.k = 1]
       ELSE LET provider == pd.providers[pd.i]
                query == pd.queries[pd.k]
            IN  \/ pd' = [AfterQuery(pd) EXCEPT
                             !.all_candidates = @ \o SearchResults(provider, query),
                             !.log = Append(@, <<provider, query, TRUE>>)]
                \/ pd' = [AfterQuery(pd) EXCEPT
                             !.log = Append(@, <<provider, query, FALSE>>)]
    /\ UNCHANGED <<storeVars, reportVars, now, pipeVars, dd, call>>

\* Lines 127-146: deduplication against the articles of the last 7 days.
PD_Dedup ==
    /\ pd.pc = "dedup"
    /\ pd' = [pd EXCEPT !.pc = "fanout",
                        !.deduplicated = deduplicate_articles(pd.all_candidates, pd.existing)]
    /\ UNCHANGED <<storeVars, reportVars, now, pipeVars, dd, call>>

\* The elements of s at the positions 1..n that are not in `failed`, in order.
RECURSIVE Enqueued(_, _, _)
Enqueued(s, n, failed) ==
    IF n = 0 THEN <<>>
    ELSE Enqueued(s, n - 1, failed) \o (IF n \in failed THEN <<>> ELSE << s[n] >>)

\* The loop of lines 151-155 without the slice: every candidate is enqueued.
FanOut_NoLimit(deduplicated, failed) ==
    Enqueued(deduplicated, Len(deduplicated), failed)

\* Lines 151-155: process_article.delay for each of deduplicated[:20], in
\* order; a delay that raises is logged and the loop goes on.
FanOut(deduplicated, failed) ==
    Enqueued(deduplicated, Min(Len(deduplicated), FanOutLimit), failed)

\* Lines 150-155: the fan-out loop, where the delay calls at the positions
\* `enqueue_failed` raise.
PD_FanOut ==
    /\ pd.pc = "fanout"
    /\ \E failed \in { f \in SUBSET (1..Min(Len(pd.deduplicated), FanOutLimit)) :
                          Cardinality(f) <= MaxEnqueueFailures } :
          pd' = [pd EXCEPT !.pc = "done", !.enqueue_failed = failed,
                           !.queued = FanOut(pd.deduplicated, failed)]
    /\ UNCHANGED <<storeVars, reportVars, now, pipeVars, dd, call>>

InitDirector ==
    /\ articles = {} /\ extracted = {} /\ mentions = {} /\ reports = {}
    /\ nextId = [article |-> 1, mention |-> 1, report |-> 1]
    /\ use_llm = TRUE
    /\ now = 1
    /\ pa = [j \in JobIds |-> IdleJob]
    /\ aborts = 0 /\ crashes = 0
    /\ alerts = {}
    /\ sent = <<>>
    /\ gr = <<>> /\ digests = <<>> /\ files = <<>>
    /\ dd = <<>>
    /\ call = <<>>
    /\ pd \in { [ pc |-> "start", director_id |-> d, row |-> row,
                  country_profile |-> "IN", provider_names |-> n, keys |-> keys,
                  existing |-> h, queries |-> <<>>, providers |-> <<>>, i |-> 0, k |-> 0,
                  all_candidates |-> <<>>, log |-> <<>>, deduplicated |-> <<>>,
                  enqueue_failed |-> {}, queued |-> <<>> ] :
                   d \in DirectorIds,
                   row \in {"active", "inactive", "missing"},
                   n \in { {"gdelt"}, {"gdelt", "bing"} },
                   keys \in { {}, {"bing"} },
                   h \in ListsOf(HistoryPool, MaxHistory) }

NextDirector == PD_Start \/ PD_Search \/ PD_Dedup \/ PD_FanOut

SpecDirector == InitDirector /\ [][NextDirector]_vars

\* The candidates of the searches of a log that returned, in log order.
RECURSIVE CandidatesOfLog(_)
CandidatesOfLog(log) ==
    IF log = <<>> THEN <<>>
    ELSE (IF log[1][3] THEN SearchResults(log[1][1], log[1][2]) ELSE <<>>)
         \o CandidatesOfLog(Tail(log))

\* C15: when process_director has ended, every (available provider, query)
\* pair was searched whether or not other searches raised, the candidates
\* handed to deduplication are exactly those of the searches that returned,
\* and the first 20 of the deduplicated candidates were fanned out.
C15_ProviderFailureIsolated ==
    (pd.pc = "done" /\ pd.row = "active") =>
        /\ \A i \in 1..Len(pd.providers) : \A k \in 1..Len(pd.queries) :
               is_available(pd.providers[i], pd.keys)
                   => \E n \in 1..Len(pd.log) :
                         pd.log[n][1] = pd.providers[i] /\ pd.log[n][2] = pd.queries[k]
        /\ pd.all_candidates = CandidatesOfLog(pd.log)
        /\ pd.queued = FanOut(deduplicate_articles(CandidatesOfLog(pd.log), pd.existing),
                              pd.enqueue_failed)

\* C15's case: a search raised, a later search of the same provider and a
\* search of another provider returned candidates, and candidates were
\* fanned out.
C15_Witness ==
    /\ pd.pc = "done"
    /\ pd.queued # <<>>
    /\ \E n \in 1..Len(pd.log) : \E m \in (n + 1)..Len(pd.log) : \E l \in (m + 1)..Len(pd.log) :
          /\ ~pd.log[n][3]
          /\ pd.log[m][3] /\ pd.log[m][1] = pd.log[n][1]
          /\ SearchResults(pd.log[m][1], pd.log[m][2]) # <<>>
          /\ pd.log[l][3] /\ pd.log[l][1] # pd.log[n][1]
          /\ SearchResults(pd.log[l][1], pd.log[l][2]) # <<>>

(***************************************************************************)
(* SpecFanOut: one process_director job under a country profile other than *)
(* IN, where one search returns more candidates than the fan-out limit and *)
(* the Director row may be missing or inactive when the job runs.          *)
(***************************************************************************)

\* The histories of the runs: none, or the page one provider finds again.
FanOutHistories ==
    { h \in ListsOf(HistoryPool, MaxHistory) : \A i \in 1..Len(h) : h[i].title = <<"O","t","h","e","r">> (* Other *) }

InitFanOut ==
    /\ articles = {} /\ extracted = {} /\ mentions = {} /\ reports = {}
    /\ nextId = [article |-> 1, mention |-> 1, report |-> 1]
    /\ use_llm = TRUE
    /\ now = 1
    /\ pa = [j \in JobIds |-> IdleJob]
    /\ aborts = 0 /\ crashes = 0
    /\ alerts = {}
    /\ sent = <<>>
    /\ gr = <<>> /\ digests = <<>> /\ files = <<>>
    /\ dd = <<>>
    /\ call = <<>>
    /\ pd \in { [ pc |-> "start", director_id |-> d, row |-> row,
                  country_profile |-> "US", provider_names |-> {"gdelt", "bing"},
                  keys |-> {"bing"},
                  existing |-> h, queries |-> <<>>, providers |-> <<>>, i |-> 0, k |-> 0,
                  all_candidates |-> <<>>, log |-> <<>>, deduplicated |-> <<>>,
                  enqueue_failed |-> {}, queued |-> <<>> ] :
                   d \in DirectorIds,
                   row \in {"active", "inactive", "missing"},
                   h \in FanOutHistories }

NextFanOut == PD_Start \/ PD_Search \/ PD_Dedup \/ PD_FanOut

SpecFanOut == InitFanOut /\ [][NextFanOut]_vars

\* q is s with some of its elements left out.
RECURSIVE IsSubsequence(_, _)
IsSubsequence(q, s) ==
    IF q = <<>> THEN TRUE
    ELSE IF s = <<>> THEN FALSE
    ELSE IF q[1] = s[1] THEN IsSubsequence(Tail(q), Tail(s))
    ELSE IsSubsequence(q, Tail(s))

\* C26: a process_director run enqueues process_article jobs in the fan-out
\* loop only, which it enters when every (available provider, query) pair
\* was searched and deduplicate_articles was applied to the merged
\* candidates of the searches, and which searches no more;
\* the jobs it has enqueued when it ends are at most 20, and they are the
\* first 20 deduplicated candidates, in their order, each once, less those
\* whose delay() raised; when the Director row is missing or inactive the
\* run searches no provider and enqueues nothing.
C26_FanOutBounded ==
    /\ [][ pd'.queued # pd.queued
              => /\ pd.pc = "fanout"
                 /\ pd'.log = pd.log /\ pd'.deduplicated = pd.deduplicated ]_vars
    /\ [][ (pd'.pc = "fanout" /\ pd.pc # "fanout")
              => /\ \A i \in 1..Len(pd.providers) : \A k \in 1..Len(pd.queries) :
                       is_available(pd.providers[i], pd.keys)
                           => \E n \in 1..Len(pd.log) :
                                 pd.log[n][1] = pd.providers[i]
                                 /\ pd.log[n][2] = pd.queries[k]
                 /\ pd'.log = pd.log
                 /\ pd'.deduplicated
                        = deduplicate_articles(CandidatesOfLog(pd.log), pd.existing) ]_vars
    /\ [] ( pd.pc = "done"
              => /\ Len(pd.queued) <= 20
                 /\ IsSubsequence(pd.queued,
                                  SubSeq(pd.deduplicated, 1, Min(Len(pd.deduplicated), 20)))
                 /\ Len(pd.queued) = Min(Len(pd.deduplicated), 20)
                                         - Cardinality(pd.enqueue_failed)
                 /\ pd.row # "active" => pd.queued = <<>> /\ pd.log = <<>> )

\* C26's case: deduplication kept more than 20 candidates of two providers,
\* one delay() raised, and 19 jobs were enqueued.
C26_Witness ==
    /\ pd.pc = "done"
    /\ Len(pd.deduplicated) > 20
    /\ \E n \in 1..Len(pd.deduplicated) : pd.deduplicated[n].source = <<"W","i","r","e">> (* Wire *)
    /\ pd.enqueue_failed # {}
    /\ Len(pd.queued) = 19

(***************************************************************************)
(* compute_confidence and resolve_director applied to bounded inputs       *)
(***************************************************************************)

\* The directors the calls are made with: John Doe of the directors table,
\* two directors of the same name with context terms and a registered
\* location (one with the company name among its context terms), and an
\* inactive namesake of John Doe.
ResolvePool == <<
    Directors[1],
    [DirectorRow(3, <<"R","a","v","i"," ","R","a","o">> (* Ravi Rao *), <<>>, << <<"A","c","m","e">> (* Acme *), <<"B","a","n","k">> (* Bank *), <<"F","u","n","d">> (* Fund *) >>, << <<"J","r",".">> (* Jr. *) >>, TRUE)
        EXCEPT !.hq_state = <<"G","o","a">> (* Goa *), !.hq_city = <<"P","a","n","a","j","i">> (* Panaji *)],
    [DirectorRow(4, <<"R","a","v","i"," ","R","a","o">> (* Ravi Rao *), <<>>, << <<"A","c","m","e">> (* Acme *) >>, <<>>, TRUE)
        EXCEPT !.company_name = <<"A","c","m","e">> (* Acme *)],
    DirectorRow(5, <<"J","o","h","n"," ","D","o","e">> (* John Doe *), <<>>, <<>>, <<>>, FALSE) >>

MaxDirectors == 2

ResolveTitles   == {"tActor", "tJr", "tRavi", "tCtx", "tNone"}
ResolveSnippets == {"sB", "sRavi", "sGoa"}
ResolveContents == {"none", "xBoth", "xCtx"}
ResolveStates   == {"none", "goa"}
ResolveCities   == {"none", "PANAJI"}

\* Thresholds a caller supplies: none, that of process_article, a stricter one.
Thresholds == {0, MinConfidence, 50}

\* The directors of a call, by their indexes in the pool.
DirectorsOf(ixs) == [ i \in 1..Len(ixs) |-> ResolvePool[ixs[i]] ]

\* compute_confidence of every director of the call.
CR_Score ==
    /\ call.pc = "start"
    /\ call' = [call EXCEPT
          !.pc = "scored",
          !.confidence = [ i \in 1..Len(call.directors) |->
              compute_confidence(ResolvePool[call.directors[i]], Text[call.title],
                                 Text[call.snippet], TextOf(call.content),
                                 TextOf(call.state), TextOf(call.city)) ]]
    /\ UNCHANGED <<storeVars, use_llm, pa, aborts, alerts, crashes, sent, now, reportVars, dd, pd>>

\* resolve_director on the directors of the call.  A call with one director
\* and the threshold 0.3 is the call of process_article (tasks.py 243-251).
CR_Resolve ==
    /\ call.pc = "scored"
    /\ call' = [call EXCEPT
          !.pc = "done",
          !.resolution = resolve_director(DirectorsOf(call.directors), Text[call.title],
                                          OrEmpty(Text[call.snippet]), TextOf(call.content),
                                          call.min_confidence,
                                          TextOf(call.state), TextOf(call.city))]
    /\ UNCHANGED <<storeVars, use_llm, pa, aborts, alerts, crashes, sent, now, reportVars, dd, pd>>

\* The calls of the model: one director with every combination of title,
\* snippet, content and location at the threshold of process_article, and
\* lists of up to MaxDirectors directors with every title and snippet at
\* every threshold.
ResolveCalls ==
    LET Call(ds, t, s, c, st, ci, m) ==
            [ pc |-> "start", directors |-> ds, title |-> t, snippet |-> s,
              content |-> c, state |-> st, city |-> ci, min_confidence |-> m,
              confidence |-> <<>>, resolution |-> [matched |-> FALSE] ]
    IN  { Call(<<i>>, t, s, c, st, ci, MinConfidence) :
              i \in 1..Len(ResolvePool), t \in ResolveTitles, s \in ResolveSnippets,
              c \in ResolveContents, st \in ResolveStates, ci \in ResolveCities }
        \cup
        { Call(ds, t, s, "none", "none", "none", m) :
              ds \in ListsOf(1..Len(ResolvePool), MaxDirectors),
              t \in ResolveTitles, s \in ResolveSnippets, m \in Thresholds }

InitResolve ==
    /\ articles = {} /\ extracted = {} /\ mentions = {} /\ reports = {}
    /\ nextId = [article |-> 1, mention |-> 1, report |-> 1]
    /\ use_llm = TRUE
    /\ now = 1
    /\ pa = [j \in JobIds |-> IdleJob]
    /\ aborts = 0 /\ crashes = 0
    /\ alerts = {}
    /\ sent = <<>>
    /\ gr = <<>> /\ digests = <<>> /\ files = <<>>
    /\ dd = <<>>
    /\ pd = <<>>
    /\ call \in ResolveCalls

NextResolve == CR_Score \/ CR_Resolve

SpecResolve == InitResolve /\ [][NextResolve]_vars

\* term occurs in text as a whole word, in any letter case: the characters
\* next to the occurrence, if any, are not letters, digits or underscores.
OccursAsWord(text, term) ==
    /\ Truthy(text) /\ term # <<>>
    /\ \E i \in 1..(Len(text) - Len(term) + 1) :
          /\ MatchAt(Lower(text), Lower(term), i)
          /\ (i = 1 \/ ~IsWordChar(text[i - 1]))
          /\ (i + Len(term) > Len(text) \/ ~IsWordChar(text[i + Len(term)]))

\* The i-th director of the call and the texts of the call.
CallDirector(i) == ResolvePool[call.directors[i]]
CallFullText == Cat(Cat(Text[call.title], Text[call.snippet]), OrEmpty(TextOf(call.content)))

\* A negative term of d occurs as a whole word in the title, the snippet or
\* the content of the call.
NegativeTermOccurs(d) ==
    \E k \in 1..Len(d.negative_terms) :
        \/ OccursAsWord(Text[call.title], d.negative_terms[k])
        \/ OccursAsWord(Text[call.snippet], d.negative_terms[k])
        \/ OccursAsWord(TextOf(call.content), d.negative_terms[k])

\* The call is the one process_article makes: one director, threshold 0.3.
IsArticleCall == Len(call.directors) = 1 /\ call.min_confidence = MinConfidence

\* C16: whenever a negative term of a director occurs as a whole word in the
\* title, snippet or content, compute_confidence is 0, and resolve_director
\* as process_article calls it finds no match (so process_article returns at
\* tasks.py 253-255 without a Mention).
C16_NegativeTermVeto ==
    call.pc # "start" =>
        \A i \in 1..Len(call.directors) :
            NegativeTermOccurs(CallDirector(i)) =>
                /\ call.confidence[i] = 0
                /\ (call.pc = "done" /\ IsArticleCall) => ~call.resolution.matched

\* A name pattern of d occurs in the combined text of the call.
NameOccurs(d, text) == \E name \in NamePatterns(d) : OccursAsWord(text, name)

\* C17: when no name pattern of a director occurs in title+snippet+content,
\* compute_confidence is 0 and resolve_director at the threshold 0.3 finds
\* no match.
C17_NoNameNoScore ==
    call.pc # "start" =>
        \A i \in 1..Len(call.directors) :
            ~NameOccurs(CallDirector(i), CallFullText) =>
                /\ call.confidence[i] = 0
                /\ (call.pc = "done" /\ IsArticleCall) => ~call.resolution.matched

\* 1 for TRUE, 0 for FALSE.
Ind(b) == IF b THEN 1 ELSE 0

\* The distinct context terms of d found in the combined text.
DistinctContextTermsFound(d, text) ==
    { term \in Range(get_all_context_terms(d)) : OccursAsWord(text, term) }

\* The additive score of the specification for d on the call, in hundredths.
AdditiveScore(d) ==
    Min(100,
          50 * Ind(NameOccurs(d, Text[call.title]))
        + 30 * Ind(NameOccurs(d, Text[call.snippet]))
        + 20 * Ind(NameOccurs(d, TextOf(call.content)))
        + Min(30, 10 * Cardinality(DistinctContextTermsFound(d, CallFullText)))
        + 10 * Ind(Truthy(TextOf(call.state)) /\ Truthy(d.hq_state)
                   /\ Lower(TextOf(call.state)) = Lower(d.hq_state))
        + 5 * Ind(Truthy(TextOf(call.city)) /\ Truthy(d.hq_city)
                  /\ Lower(TextOf(call.city)) = Lower(d.hq_city)))

\* C18: without a negative-term veto and with a name pattern in the text,
\* compute_confidence is the additive score (context terms counted once per
\* distinct term, capped at 0.3, the total capped at 1.0); the result always
\* lies in [0, 1]; without a veto a name in the title gives at least 0.5.
C18_AdditiveScore ==
    call.pc # "start" =>
        \A i \in 1..Len(call.directors) :
            /\ call.confidence[i] \in 0..100
            /\ (~NegativeTermOccurs(CallDirector(i)) /\ NameOccurs(CallDirector(i), CallFullText))
                  => call.confidence[i] = AdditiveScore(CallDirector(i))
            /\ (~NegativeTermOccurs(CallDirector(i)) /\ NameOccurs(CallDirector(i), Text[call.title]))
                  => call.confidence[i] >= 50

\* The positions of the call's list whose director is active and scores at
\* least the threshold, and those of them whose score is positive.
Eligible == { i \in 1..Len(call.directors) :
                 CallDirector(i).is_active /\ call.confidence[i] >= call.min_confidence }
EligiblePositive == { i \in Eligible : call.confidence[i] > 0 }

\* The highest score at the positions E.
MaxScore(E) == CHOOSE m \in { call.confidence[i] : i \in E } : \A i \in E : call.confidence[i] <= m

\* resolve_director returned none exactly when E is empty, and otherwise
\* the earliest director of the list among those of E with the highest
\* score, together with that score.
ReturnsFirstBestOf(E) ==
    /\ call.resolution.matched <=> E # {}
    /\ call.resolution.matched =>
          /\ call.resolution.confidence = MaxScore(E)
          /\ call.resolution.director.is_active
          /\ \E i \in E :
                /\ call.confidence[i] = MaxScore(E)
                /\ \A k \in E : call.confidence[k] = MaxScore(E) => i <= k
                /\ call.resolution.director = CallDirector(i)

\* C19 as stated: resolve_director returns none exactly when no active
\* director scores at least min_confidence; otherwise it returns the
\* earliest director of the list among the active ones with the highest
\* score, together with that score; an inactive director is never returned.
C19_ResolveReturnsFirstBest == call.pc = "done" => ReturnsFirstBestOf(Eligible)

\* C19 amended: resolve_director returns none exactly when no active
\* director has a score that is positive and at least min_confidence;
\* otherwise it returns the earliest director of the list among the active
\* ones with the highest score, together with that score; an inactive
\* director is never returned.
C19_ResolveReturnsFirstPositiveBest == call.pc = "done" => ReturnsFirstBestOf(EligiblePositive)

\* C19's case: two different active directors tie at the highest score, an
\* earlier one in the list than the other, and a director was returned.
C19_Witness ==
    /\ call.pc = "done"
    /\ call.resolution.matched
    /\ Len(call.directors) = 2
    /\ call.directors[1] # call.directors[2]
    /\ Eligible = {1, 2}
    /\ call.confidence[1] = call.confidence[2]

(***************************************************************************)
(* classify_heuristic applied to bounded inputs                            *)
(***************************************************************************)

HeuristicTitles   == {"tA", "hArrest", "hFraud", "hScam", "hAward", "hAppoint", "hMilestone"}
HeuristicSnippets == {"sB", "hCourt", "hSuit"}
HeuristicContents == {"none", "hSebi", "hJail", "hProfit"}
CountryProfiles   == {"IN", "US"}

\* classify_heuristic(title, snippet or "", content, "en", country_profile)
CH_Classify ==
    /\ call.pc = "start"
    /\ call' = [call EXCEPT
          !.pc = "done",
          !.result = classify_heuristic(Text[call.title], OrEmpty(Text[call.snippet]),
                                        TextOf(call.content), "en", call.country_profile)]
    /\ UNCHANGED <<storeVars, use_llm, pa, aborts, alerts, crashes, sent, now, reportVars, dd, pd>>

InitHeuristic ==
    /\ articles = {} /\ extracted = {} /\ mentions = {} /\ reports = {}
    /\ nextId = [article |-> 1, mention |-> 1, report |-> 1]
    /\ use_llm = TRUE
    /\ now = 1
    /\ pa = [j \in JobIds |-> IdleJob]
    /\ aborts = 0 /\ crashes = 0
    /\ alerts = {}
    /\ sent = <<>>
    /\ gr = <<>> /\ digests = <<>> /\ files = <<>>
    /\ dd = <<>>
    /\ pd = <<>>
    /\ call \in { [ pc |-> "start", title |-> t, snippet |-> s, content |-> c,
                    country_profile |-> p,
                    result |-> [sentiment |-> "NEUTRAL", severity |-> "LOW",
                                category |-> "OTHER"] ] :
                     t \in HeuristicTitles, s \in HeuristicSnippets,
                     c \in HeuristicContents, p \in CountryProfiles }

NextHeuristic == CH_Classify

SpecHeuristic == InitHeuristic /\ [][NextHeuristic]_vars

\* A keyword of the set is present in title+snippet+content of the call:
\* the lower-cased keyword is contained in the lower-cased text.
KeywordPresent(keywords) ==
    \E kw \in keywords :
        Contains(Lower(Cat(Cat(Text[call.title], OrEmpty(Text[call.snippet])),
                           OrEmpty(TextOf(call.content)))), Lower(kw))

\* The regulatory and the legal keywords of the call's country profile.
RegulatoryOfCall ==
    IF call.country_profile = "IN" THEN INDIA_REGULATORY_KEYWORDS \cup REGULATORY_KEYWORDS
    ELSE REGULATORY_KEYWORDS
LegalOfCall ==
    IF call.country_profile = "IN" THEN INDIA_LEGAL_KEYWORDS \cup LEGAL_KEYWORDS
    ELSE LEGAL_KEYWORDS

\* The litigation sub-keywords of the negative branches.
LitigationSubKeywords ==
    { <<"n","c","l","t">> (* nclt *), <<"n","c","l","a","t">> (* nclat *), <<"c","i","v","i","l"," ","s","u","i","t">> (* civil suit *), <<"c","r","i","m","i","n","a","l"," ","c","a","s","e">> (* criminal case *), <<"f","i","r">> (* fir *), <<"c","h","a","r","g","e"," ","s","h","e","e","t">> (* charge sheet *) }

HeuristicFullText ==
    Cat(Cat(Text[call.title], OrEmpty(Text[call.snippet])), OrEmpty(TextOf(call.content)))

\* A keyword of the set occurs in title+snippet+content as a whole word.
KeywordOccursAsWord(keywords) == \E kw \in keywords : OccursAsWord(HeuristicFullText, kw)

\* C21: a text in which a positive keyword occurs and no high-severity and
\* no medium-severity negative keyword occurs as a word is classified
\* POSITIVE with severity LOW.
C21_PositiveText ==
    (/\ call.pc = "done"
     /\ KeywordOccursAsWord(POSITIVE_KEYWORDS)
     /\ ~KeywordOccursAsWord(NEGATIVE_HIGH_SEVERITY_KEYWORDS)
     /\ ~KeywordOccursAsWord(NEGATIVE_MEDIUM_SEVERITY_KEYWORDS)) =>
        /\ call.result.sentiment = "POSITIVE"
        /\ call.result.severity = "LOW"

\* The positive branch is the one taken: a positive keyword is present and
\* no high-severity and no medium-severity negative keyword is.
PositiveBranchTaken ==
    /\ ~KeywordPresent(NEGATIVE_HIGH_SEVERITY_KEYWORDS)
    /\ ~KeywordPresent(NEGATIVE_MEDIUM_SEVERITY_KEYWORDS)
    /\ KeywordPresent(POSITIVE_KEYWORDS)

\* C22: when the positive branch is taken the category is AWARDS_RECOGNITION
\* if an awards sub-keyword is present, else GOVERNANCE_BOARD_APPOINTMENT if
\* a governance keyword is present, else OTHER: the category-only cascade
\* has no say once a sentiment branch matched.
C22_PositiveBranchCategory ==
    (call.pc = "done" /\ PositiveBranchTaken) =>
        call.result.category =
            IF KeywordPresent({<<"a","w","a","r","d">> (* award *), <<"h","o","n","o","u","r","e","d">> (* honoured *), <<"r","e","c","o","g","n","i","z","e","d">> (* recognized *)})
            THEN "AWARDS_RECOGNITION"
            ELSE IF KeywordPresent(GOVERNANCE_KEYWORDS)
            THEN "GOVERNANCE_BOARD_APPOINTMENT"
            ELSE "OTHER"

(***************************************************************************)
(* canonicalize_url applied to pairs of URLs that are variants of one URL  *)
(***************************************************************************)

\* The URLs varied: a scheme, a host and the query parameters in order.
\* The host "[x" is one urlparse rejects.
UrlBases ==
    { [scheme |-> sc, host |-> "x.com", params |-> ps] :
          sc \in {"http", "https"},
          ps \in { <<>>, << <<"a","=","1">> (* a=1 *), <<"b","=","2">> (* b=2 *) >>, << <<"a","=","1">> (* a=1 *), <<"a","=","2">> (* a=2 *) >> } }
    \cup { [scheme |-> sc, host |-> "[x", params |-> <<>>] : sc \in {"http", "https"} }

\* The ways a URL is written: scheme and host in upper case, the default
\* port of the scheme given, a fragment appended, the parameters reversed.
UrlVariations ==
    [ scheme_upper : BOOLEAN, host_upper : BOOLEAN, port : BOOLEAN,
      fragment : BOOLEAN, reversed : BOOLEAN ]

SchemeText == [ http |-> <<"h","t","t","p">> (* http *), https |-> <<"h","t","t","p","s">> (* https *) ]
SchemeUpperText == [ http |-> <<"H","T","T","P">> (* HTTP *), https |-> <<"H","T","T","P","S">> (* HTTPS *) ]
DefaultPortText == [ http |-> <<":","8","0">> (* :80 *), https |-> <<":","4","4","3">> (* :443 *) ]

\* s reversed.
Reverse(s) == [ i \in 1..Len(s) |-> s[Len(s) + 1 - i] ]

\* The URL of a base written in a variation.
UrlOf(base, v) ==
    (IF v.scheme_upper THEN SchemeUpperText[base.scheme] ELSE SchemeText[base.scheme])
    \o <<":","/","/">> (* :// *)
    \o (IF base.host = "[x" THEN (IF v.host_upper THEN <<"[","X">> (* [X *) ELSE <<"[","x">> (* [x *))
        ELSE IF v.host_upper THEN <<"X",".","C","o","m">> (* X.Com *) ELSE <<"x",".","c","o","m">> (* x.com *))
    \o (IF v.port THEN DefaultPortText[base.scheme] ELSE <<>>)
    \o <<"/","p">> (* /p *)
    \o (IF base.params = <<>> THEN <<>>
        ELSE <<"?">> \o JoinWith(IF v.reversed THEN Reverse(base.params) ELSE base.params, "&"))
    \o (IF v.fragment THEN <<"#","t","o","p">> (* #top *) ELSE <<>>)

\* canonicalize_url of both URLs of the call.
CU_Canonicalize ==
    /\ call.pc = "start"
    /\ call' = [call EXCEPT
          !.pc = "done",
          !.canonical = << canonicalize_url(UrlOf(call.base, call.v1)),
                           canonicalize_url(UrlOf(call.base, call.v2)) >>]
    /\ UNCHANGED <<storeVars, use_llm, pa, aborts, alerts, crashes, sent, now, reportVars, dd, pd>>

InitUrl ==
    /\ articles = {} /\ extracted = {} /\ mentions = {} /\ reports = {}
    /\ nextId = [article |-> 1, mention |-> 1, report |-> 1]
    /\ use_llm = TRUE
    /\ now = 1
    /\ pa = [j \in JobIds |-> IdleJob]
    /\ aborts = 0 /\ crashes = 0
    /\ alerts = {}
    /\ sent = <<>>
    /\ gr = <<>> /\ digests = <<>> /\ files = <<>>
    /\ dd = <<>>
    /\ pd = <<>>
    /\ call \in { [ pc |-> "start", base |-> b, v1 |-> v1, v2 |-> v2, canonical |-> <<>> ] :
                     b \in UrlBases, v1 \in UrlVariations, v2 \in UrlVariations }

NextUrl == CU_Canonicalize

SpecUrl == InitUrl /\ [][NextUrl]_vars

\* C23: two URLs that differ only in scheme or host letter case, in the
\* presence of the scheme's default port, in their fragment or in the order
\* of their query parameters have the same canonical URL, and no canonical
\* URL contains "#".
C23_CanonicalOfVariants ==
    call.pc = "done" =>
        /\ call.canonical[1] = call.canonical[2]
        /\ "#" \notin Range(call.canonical[1])
        /\ "#" \notin Range(call.canonical[2])

(***************************************************************************)
(* daily_monitoring_job (tasks.py 36-75)                                   *)
(* SpecMonitor: one run of the job, for every setting of enabled provider  *)
(* names, every set of configured API keys and every is_active marking of  *)
(* the directors table.                                                    *)
(***************************************************************************)

\* The provider names settings.enabled_providers_list may hold.
ProviderNames == {"gdelt", "bing", "serpapi", "newsdata"}

\* The providers tasks.py binds at module level (lines 16-22): the name
\* NewsDataProvider is imported inside process_director only (line 94).
ModuleLevelProviders == {"gdelt", "bing", "serpapi"}

\* Lines 52-60: the providers list, built in this order.  Evaluating the
\* name of a class the module does not bind raises NameError.
DM_Providers(enabled, keys) ==
    SelectSeq(<<"gdelt", "bing", "serpapi", "newsdata">>,
              LAMBDA p : p \in enabled /\ is_available(p, keys))

\* Line 42: the active directors, in table order.
ActiveDirectors(is_active) ==
    SelectSeq([ i \in 1..Len(Directors) |-> Directors[i].id ], LAMBDA d : is_active[d])

\* Lines 42-63: query the active directors, build the providers list.
DM_Start ==
    /\ call.pc = "start"
    /\ LET directors == ActiveDirectors(call.is_active)
       IN  IF directors = <<>>
           THEN call' = [call EXCEPT !.pc = "returned"]
           ELSE IF \E p \in call.enabled : p \notin ModuleLevelProviders
           THEN call' = [call EXCEPT !.pc = "raised"]
           ELSE IF DM_Providers(call.enabled, call.keys) = <<>>
           THEN call' = [call EXCEPT !.pc = "returned"]
           ELSE call' = [call EXCEPT !.pc = "queue", !.directors = directors,
                                     !.providers = DM_Providers(call.enabled, call.keys),
                                     !.i = 1]
    /\ UNCHANGED <<storeVars, use_llm, pa, aborts, alerts, crashes, sent, now, reportVars, dd, pd>>

\* Lines 66-70: process_director.delay for the next director; when delay
\* raises, the error is logged and the loop goes on.
DM_Enqueue ==
    /\ call.pc = "queue"
    /\ IF call.i > Len(call.directors)
       THEN call' = [call EXCEPT !.pc = "returned"]
       ELSE \/ call' = [call EXCEPT
                           !.queued = Append(@, [director_id |-> call.directors[call.i],
                                                 provider_names |-> call.providers]),
                           !.i = @ + 1]
            \/ call' = [call EXCEPT !.failed = @ \cup {call.directors[call.i]},
                                    !.i = @ + 1]
    /\ UNCHANGED <<storeVars, use_llm, pa, aborts, alerts, crashes, sent, now, reportVars, dd, pd>>

InitMonitor ==
    /\ articles = {} /\ extracted = {} /\ mentions = {} /\ reports = {}
    /\ nextId = [article |-> 1, mention |-> 1, report |-> 1]
    /\ use_llm = TRUE
    /\ now = 1
    /\ pa = [j \in JobIds |-> IdleJob]
    /\ aborts = 0 /\ crashes = 0
    /\ alerts = {}
    /\ sent = <<>>
    /\ gr = <<>> /\ digests = <<>> /\ files = <<>>
    /\ dd = <<>>
    /\ pd = <<>>
    /\ call \in { [ pc |-> "start", enabled |-> e, keys |-> k, is_active |-> a,
                    directors |-> <<>>, providers |-> <<>>, i |-> 0,
                    queued |-> <<>>, failed |-> {} ] :
                     e \in SUBSET ProviderNames,
                     k \in SUBSET (ProviderNames \ {"gdelt"}),
                     a \in [DirectorIds -> BOOLEAN] }

NextMonitor == DM_Start \/ DM_Enqueue

SpecMonitor == InitMonitor /\ [][NextMonitor]_vars

\* The process_director jobs a run has enqueued for a director.
QueuedFor(d) ==
    Cardinality({ n \in 1..Len(call.queued) : call.queued[n].director_id = d })

\* C25: when a run of daily_monitoring_job in which at least one enabled
\* provider is available has ended, exactly one process_director job was
\* enqueued for every active director whose enqueue did not fail, and none
\* for an inactive director, whatever the enabled provider names are.
C25_OneJobPerActiveDirector ==
    ( /\ call.pc \in {"returned", "raised"}
      /\ \E p \in call.enabled : is_available(p, call.keys) )
        => \A d \in DirectorIds :
              QueuedFor(d) = IF call.is_active[d] /\ d \notin call.failed THEN 1 ELSE 0

(***************************************************************************)
(* fetch_article (app/core/article_extraction.py 17-40)                    *)
(* SpecFetch: one call, every HTTP attempt of which returns a body or      *)
(* raises.                                                                 *)
(***************************************************************************)

\* The largest retries argument and ARTICLE_FETCH_RETRIES setting.
MaxFetchRetries == 3

\* What an attempt can do: return a body (an empty one included), or raise.
AttemptOutcomes ==
    { [ok |-> TRUE,  text |-> <<"<","h","t","m","l",">">> (* <html> *), e |-> <<>>],
      [ok |-> TRUE,  text |-> <<>>,      e |-> <<>>],
      [ok |-> FALSE, text |-> <<>>,      e |-> <<"t","i","m","e","d"," ","o","u","t">> (* timed out *)],
      [ok |-> FALSE, text |-> <<>>,      e |-> <<"5","0","0">> (* 500 *)] }

\* Line 35: f"Failed to fetch {url} after {retries} attempts: {str(e)}".
FailedToFetch(retries, e) ==
    <<"F","a","i","l","e","d"," ","a","f","t","e","r"," ">> (* Failed after  *) \o TwoDigits(retries) \o <<" ","a","t","t","e","m","p","t","s",":"," ">> (*  attempts:  *) \o e

\* Line 34 with `attempt == retries`.
IsLastAttempt_OffByOne(attempt, retries) == attempt = retries

\* Line 34: `attempt == retries - 1`.
IsLastAttempt(attempt, retries) == attempt = retries - 1

\* Lines 23-24: `retries = retries or settings.article_fetch_retries`.  The
\* argument 0 stands for None as well: `or` treats both alike.
FA_Start ==
    /\ call.pc = "start"
    /\ call' = [call EXCEPT !.pc = "loop", !.attempt = 0,
                            !.retries = IF call.retries_arg # 0 THEN call.retries_arg
                                        ELSE call.article_fetch_retries]
    /\ UNCHANGED <<storeVars, use_llm, pa, aborts, alerts, crashes, sent, now, reportVars, dd, pd>>

\* Lines 26-38: one iteration of `for attempt in range(retries)`, and line 40
\* when the range is exhausted.
FA_Attempt ==
    /\ call.pc = "loop"
    /\ IF call.attempt >= call.retries
       THEN call' = [call EXCEPT !.pc = "returned",
                                 !.result = [html |-> None, error |-> <<"M","a","x"," ","r","e","t","r","i","e","s"," ","e","x","c","e","e","d","e","d">> (* Max retries exceeded *)]]
       ELSE \E o \in AttemptOutcomes :
               call' = IF o.ok
                       THEN [call EXCEPT !.pc = "returned", !.log = Append(@, o),
                                         !.result = [html |-> o.text, error |-> None]]
                       ELSE IF IsLastAttempt(call.attempt, call.retries)
                       THEN [call EXCEPT !.pc = "returned", !.log = Append(@, o),
                                         !.result = [html |-> None,
                                                     error |-> FailedToFetch(call.retries, o.e)]]
                       ELSE [call EXCEPT !.attempt = @ + 1, !.log = Append(@, o)]
    /\ UNCHANGED <<storeVars, use_llm, pa, aborts, alerts, crashes, sent, now, reportVars, dd, pd>>

InitFetch ==
    /\ articles = {} /\ extracted = {} /\ mentions = {} /\ reports = {}
    /\ nextId = [article |-> 1, mention |-> 1, report |-> 1]
    /\ use_llm = TRUE
    /\ now = 1
    /\ pa = [j \in JobIds |-> IdleJob]
    /\ aborts = 0 /\ crashes = 0
    /\ alerts = {}
    /\ sent = <<>>
    /\ gr = <<>> /\ digests = <<>> /\ files = <<>>
    /\ dd = <<>>
    /\ pd = <<>>
    /\ call \in { [ pc |-> "start", retries_arg |-> a, article_fetch_retries |-> s,
                    retries |-> 0, attempt |-> 0, log |-> <<>>,
                    result |-> [html |-> None, error |-> None] ] :
                     a \in 0..MaxFetchRetries, s \in 0..MaxFetchRetries }

NextFetch == FA_Start \/ FA_Attempt

SpecFetch == InitFetch /\ [][NextFetch]_vars

\* An HTTP attempt ends: httpx returns or raises within the timeout of the
\* client (line 29), and the interpreter goes on with the loop.
FairSpecFetch == SpecFetch /\ WF_vars(NextFetch)

\* The retries the call works with: the argument, or the setting when the
\* argument is None or 0.
EffectiveRetries == IF call.retries_arg # 0 THEN call.retries_arg
                    ELSE call.article_fetch_retries

\* C27: fetch_article returns, and when it has returned it has made at most
\* `retries` HTTP attempts; with no error, the last attempt is the only one
\* that succeeded and its body is returned; with an error, no body is
\* returned, exactly `retries` attempts were made and all failed, and the
\* error carries the failure of the last of them.
C27_FetchTerminates ==
    /\ <>(call.pc = "returned")
    /\ [] ( call.pc = "returned" =>
             LET n == Len(call.log)
             IN  /\ n <= EffectiveRetries
                 /\ \A i \in 1..(n - 1) : ~call.log[i].ok
                 /\ call.result.error = None
                       => /\ n >= 1 /\ call.log[n].ok
                          /\ call.result.html = call.log[n].text
                 /\ call.result.error # None
                       => /\ call.result.html = None
                          /\ n = EffectiveRetries
                          /\ n >= 1 => /\ ~call.log[n].ok
                                       /\ call.result.error
                                              = FailedToFetch(EffectiveRetries, call.log[n].e) )

\* C27's case: the call returned an error after three failed attempts, the
\* last of which timed out.
C27_Witness ==
    /\ call.pc = "returned"
    /\ Len(call.log) = 3
    /\ call.log[2].e = <<"5","0","0">> (* 500 *)
    /\ call.result.error = FailedToFetch(3, <<"t","i","m","e","d"," ","o","u","t">> (* timed out *))

(***************************************************************************)
(* cleanup_old_data (tasks.py 363-386)                                     *)
(* SpecCleanup: one run of the job on a store of articles of different     *)
(* ages, with or without extracted content and mentions.                   *)
(***************************************************************************)

\* settings.data_retention_days, in days of the model's calendar.
data_retention_days == 1

\* The day the job runs.
CleanupDay == 3

\* Articles in the store when the job runs.
MaxCleanupArticles == 2

\* An article of the store: the day it was created, whether its content was
\* extracted, and the days its mentions were created (none before it was).
ArticleShapes ==
    { s \in [ created_at : {1, CleanupDay}, has_content : BOOLEAN,
              mention_days : SUBSET {1, CleanupDay} ] :
         \A d \in s.mention_days : d >= s.created_at }

\* Line 368: cutoff_date.
cutoff_date == now - data_retention_days

\* Line 371: the mentions the first DELETE leaves.
MentionsKept == { m \in mentions : ~(m.created_at < cutoff_date) }

\* Lines 375-378: the articles the second DELETE selects, in the
\* transaction that has deleted the old mentions.
OrphanedArticles ==
    { a \in articles : /\ a.created_at < cutoff_date
                       /\ ~\E m \in MentionsKept : m.article_id = a.id }

\* The foreign key extracted_contents.article_id -> articles.id (article.py
\* 58, alembic 001_initial.py 73) has no ON DELETE action and
\* Query.delete() does not cascade: a DELETE of an article that has an
\* ExtractedContent row violates it.
ViolatesForeignKey(deleted) ==
    \E a \in deleted : \E e \in extracted : e.article_id = a.id

\* Lines 366-386.  A database that enforces foreign keys (PostgreSQL, the
\* configured one) rejects the second DELETE when it violates the foreign
\* key: the except clause logs and rolls the transaction back, the first
\* DELETE included.  One that does not (SQLite by default) deletes the rows.
cleanup_old_data ==
    /\ call.pc = "start"
    /\ IF call.foreign_keys /\ ViolatesForeignKey(OrphanedArticles)
       THEN /\ call' = [call EXCEPT !.pc = "done", !.outcome = "rollback"]
            /\ UNCHANGED <<articles, mentions>>
       ELSE /\ call' = [call EXCEPT !.pc = "done", !.outcome = "commit"]
            /\ mentions' = MentionsKept
            /\ articles' = articles \ OrphanedArticles
    /\ UNCHANGED <<extracted, nextId, use_llm, pa, aborts, alerts, crashes, sent, now,
                   reportVars, dd, pd>>

\* The rows of an article of the store.
ShapeArticle(i, s) ==
    [NewArticle(i, IF i = 1 THEN CandidateDict("uA", "tA", "sA")
                   ELSE CandidateDict("uB", "tB", "sB")) EXCEPT
        !.created_at = s.created_at,
        !.fetch_status = IF s.has_content THEN "success" ELSE "failed"]

ShapeContent(i) ==
    LET content == IF i = 1 THEN "xRaid" ELSE "xWin"
    IN  [ article_id |-> i, content |-> content,
          content_hash |-> compute_content_hash(Text[content]) ]

ShapeMentions(i, s) ==
    { [NewMention(2 * i + (IF d = 1 THEN 0 ELSE 1), 1 + (IF d = 1 THEN 0 ELSE 1), i, 80,
                  Heuristic["tA", "sA", "none"]) EXCEPT !.created_at = d] :
         d \in s.mention_days }

InitCleanup ==
    /\ now = CleanupDay
    /\ \E shapes \in [1..MaxCleanupArticles -> ArticleShapes] :
          /\ articles = { ShapeArticle(i, shapes[i]) : i \in 1..MaxCleanupArticles }
          /\ extracted = { ShapeContent(i) :
                              i \in { k \in 1..MaxCleanupArticles : shapes[k].has_content } }
          /\ mentions = UNION { ShapeMentions(i, shapes[i]) : i \in 1..MaxCleanupArticles }
    /\ reports = {}
    /\ nextId = [article |-> MaxCleanupArticles + 1, mention |-> 2 * MaxCleanupArticles + 2,
                 report |-> 1]
    /\ use_llm = TRUE
    /\ pa = [j \in JobIds |-> IdleJob]
    /\ aborts = 0 /\ crashes = 0
    /\ alerts = {}
    /\ sent = <<>>
    /\ gr = <<>> /\ digests = <<>> /\ files = <<>>
    /\ dd = <<>>
    /\ pd = <<>>
    /\ call \in { [ pc |-> "start", foreign_keys |-> fk, outcome |-> "none" ] :
                     fk \in BOOLEAN }

NextCleanup == cleanup_old_data

SpecCleanup == InitCleanup /\ [][NextCleanup]_vars

\* C28: when cleanup_old_data has completed, no Mention created before the
\* cutoff remains, no Article created before the cutoff that has no Mention
\* remains, no Article that still has a Mention was deleted, and every
\* ExtractedContent and every Mention refers to an Article of the table.
C28_CleanupComplete ==
    [][ (call.pc = "start" /\ call'.pc = "done")
           => /\ \A m \in mentions' : ~(m.created_at < cutoff_date)
              /\ \A a \in articles' :
                    a.created_at < cutoff_date => \E m \in mentions' : m.article_id = a.id
              /\ \A a \in articles \ articles' : ~\E m \in mentions' : m.article_id = a.id
              /\ \A e \in extracted' : \E a \in articles' : a.id = e.article_id
              /\ \A m \in mentions' : \E a \in articles' : a.id = m.article_id ]_vars

(***************************************************************************)
(* SpecReview: the jobs of SpecRetry next to the reviews of the mentions   *)
(* they create (review_item, app/api/items.py 121-135).                    *)
(***************************************************************************)

NextReview ==
    \/ NextRetry
    \/ \E m \in mentions, c \in BOOLEAN : review_item(m.id, c)

SpecReview == Init /\ [][NextReview]_vars

\* The fields of a Mention row in which two versions of it differ.
ChangedFields(m1, m2) == { f \in DOMAIN m1 : m1[f] # m2[f] }

PageCandidates == { CandidateDict("uA", "tA", "sA"), CandidateDict("uA2", "tA", "sA") }

\* The Article row of the page after a job whose fetch extracted no text.
FailedArticle ==
    [ id |-> 1, url |-> "uA", canonical_url |-> canonicalize_url(Text["uA"]),
      title |-> "tA", snippet |-> "sA", fetch_status |-> "failed",
      fetch_error |-> "No content extracted", created_at |-> 1 ]

\* The director of the job j.
JobDirector(j) == Directors[((j - 1) % Len(Directors)) + 1].id

InitConflict ==
    /\ articles \in { {}, {FailedArticle} }
    /\ extracted = {} /\ mentions = {} /\ reports = {}
    /\ nextId = [article |-> Cardinality(articles) + 1, mention |-> 1, report |-> 1]
    /\ use_llm = FALSE
    /\ now = 1
    /\ pa \in { [ j \in JobIds |-> [pc |-> "start", director_id |-> JobDirector(j),
                                    article_dict |-> c[j], retries |-> 0] ] :
                   c \in [JobIds -> PageCandidates] }
    /\ aborts = 0 /\ crashes = 0
    /\ alerts = {}
    /\ sent = <<>>
    /\ gr = <<>> /\ digests = <<>> /\ files = <<>>
    /\ dd = <<>>
    /\ call = <<>>
    /\ pd = <<>>

NextConflict ==
    \/ \E j \in JobIds : PA_Start(j)
    \/ \E j \in JobIds : PA_Fetch(j)
    \/ \E j \in JobIds : PA_Resolve(j)
    \/ \E j \in JobIds : PA_Classify(j)
    \/ \E j \in JobIds : PA_Alert(j)
    \/ \E m \in AlertIds : SA_Start(m)
    \/ \E m \in AlertIds : SA_Send(m)
    \/ \E m \in AlertIds : SA_Commit(m)

SpecConflict == InitConflict /\ [][NextConflict]_vars

\* Some job has a step to take: the enabling condition of NextConflict.
StepEnabled ==
    \/ \E j \in JobIds : pa[j].pc \in {"start", "fetch", "resolve", "classify", "alert"}
    \/ \E a \in alerts : a.pc \in {"queued", "loaded", "sending"}

\* The workers go on executing the jobs they have taken: weak fairness of
\* NextConflict, with its enabling condition written out.
FairSpecConflict ==
    SpecConflict /\ ([]<>(~StepEnabled) \/ []<><<NextConflict>>_vars)

\* The director of job j has a Mention for an Article of the page.
HasMentionOfPage(j) ==
    \E m \in mentions : \E a \in articles :
        /\ m.director_id = JobDirector(j)
        /\ m.article_id = a.id
        /\ a.canonical_url = canonicalize_url(Text["uA"])

\* C30: of two concurrent process_article jobs of two directors for one
\* page, each ends at its fetch step only when its own fetch failed and it
\* recorded that on the Article (a conflict on the Article or on its
\* ExtractedContent does not end it), and each job that has its Article and
\* the page's text, which matches its director, leads to a Mention of its
\* director for the page.
C30_BothDirectorsMentioned ==
    /\ [][ \A j \in JobIds :
              (pa[j].pc = "fetch" /\ pa'[j].pc = "done")
                  => \E a \in articles' : /\ a.id = pa[j].article_id
                                          /\ a.fetch_status = "failed"
                                          /\ a.fetch_error = "fetch failed" ]_vars
    /\ \A j \in JobIds :
          (pa[j].pc = "resolve" /\ ExtractedText(pa[j].article_id) # "none")
              ~> HasMentionOfPage(j)
====
